---- MODULE Spec2Model ----
(***************************************************************************)
(* A model of HAProxy's CPU topology engine (src/cpu_topo.c): the store of *)
(* per-CPU descriptors ha_cpu_topo[], the "cpu-set" configuration, the     *)
(* usability pass, the fixup pass, the qsort() comparators of the CPU      *)
(* selection strategies and the re-sort utilities built on them.           *)
(***************************************************************************)
EXTENDS Integers, Sequences, FiniteSets, TLC

VARIABLES
    ha_cpu_topo,   \* the store: slot (0..maxcpus-1) -> struct ha_cpu_topo
    cpu_set_cfg,   \* the "cpu-set" configuration (struct cpu_set_cfg)
    cpu_sel,       \* global.cpu_sel: index into ha_cpu_selection[]
    sys_bound,     \* what the OS affinity call yields: [ok, set]
    sys_online,    \* what the OS online-CPU list yields: [ok, set]
    sysfs,         \* the files of /sys/devices/system the topology probe reads
    saved_topo,    \* the store as the last operation but cpu_reorder_by_index found it
    pc,            \* position in the boot sequence
    cmp_args,      \* descriptors handed to the comparators
    cmp_ret        \* comparator name -> (i, j) -> value returned for (args[i], args[j])

vars == <<ha_cpu_topo, cpu_set_cfg, cpu_sel, sys_bound, sys_online, sysfs,
          saved_topo, pc, cmp_args, cmp_ret>>

\* the operating system, as the probes see it
env == <<sys_bound, sys_online, sysfs>>

\* the variables of the comparator calls
cmpv == <<cmp_args, cmp_ret>>

----------------------------------------------------------------------------
(* Bounds of the model *)

\* number of CPU slots of the store (ha_cpuset_size())
MaxCpus == 4

\* identifiers drawn for a topology field range over -1..MaxId
MaxId == 2

----------------------------------------------------------------------------
(* Constants of the program *)

HA_CPU_F_EXCLUDED == 1
HA_CPU_F_OFFLINE == 2
CPU_SET_FL_DO_RESET == 1

\* capacities given by cpu_fixup_topology to CPUs of unknown capacity
CAPA_SMT == 100
CAPA_NOSMT == 50

Cpus == 0 .. (MaxCpus - 1)
Levels == 0 .. 4

\* The flag tests "st & f" and "st |= f" on the ushort state word
HasFlag(st, f) == (st \div f) % 2 = 1
SetFlag(st, f) == IF HasFlag(st, f) THEN st ELSE st + f

\* struct ha_cpu_topo as cpu_topo_alloc() presets it for slot <cpu>:
\* memset(0xff) makes every short field -1, then st = 0 and idx = cpu.
AllocDesc(cpu) ==
    [ st |-> 0, idx |-> cpu,
      ca_id |-> [lvl \in Levels |-> -1],
      ts_id |-> -1, cl_gid |-> -1, cl_lid |-> -1,
      no_id |-> -1, pk_id |-> -1, tg_id |-> -1,
      th_cnt |-> -1, th_id |-> -1, capa |-> -1 ]

----------------------------------------------------------------------------
(* The comparators.  Each is a chain of tests with early returns; a test   *)
(* that returns nothing lets the next one run.                             *)

\* a test that returns <ret> when it is not 0, followed by the tests <next>
OrNext(ret, next) == IF ret # 0 THEN ret ELSE next

\* "st & (HA_CPU_F_OFFLINE | HA_CPU_F_EXCLUDED)"
Unusable(d) == HasFlag(d.st, HA_CPU_F_OFFLINE) \/ HasFlag(d.st, HA_CPU_F_EXCLUDED)

\* first, online vs offline
CmpStOfflineOnly(l, r) ==
    IF ~HasFlag(l.st, HA_CPU_F_OFFLINE) /\ HasFlag(r.st, HA_CPU_F_OFFLINE) THEN -1
    ELSE IF ~HasFlag(r.st, HA_CPU_F_OFFLINE) /\ HasFlag(l.st, HA_CPU_F_OFFLINE) THEN 1
    ELSE 0
CmpSt(l, r) ==
    IF ~Unusable(l) /\ Unusable(r) THEN -1
    ELSE IF ~Unusable(r) /\ Unusable(l) THEN 1
    ELSE 0

\* if (l->x >= 0 && l->x < r->x) return -1; if (l->x > r->x && r->x >= 0) return 1;
CmpId(l, r) ==
    IF l >= 0 /\ l < r THEN -1
    ELSE IF l > r /\ r >= 0 THEN 1
    ELSE 0

\* CPU capacity, higher first, with the +/- 5% margin
CmpCapaExact(l, r) ==
    IF l > 0 /\ l > r THEN -1
    ELSE IF r > 0 /\ l < r THEN 1
    ELSE 0
CmpCapa(l, r) ==
    IF l > 0 /\ l * 19 > r * 20 THEN -1
    ELSE IF r > 0 /\ l * 20 < r * 19 THEN 1
    ELSE 0

CmpThCntNarrowFirst(l, r) ==
    IF l > r THEN 1
    ELSE IF l < r THEN -1
    ELSE 0

\* CPU SMT, wider first
CmpThCnt(l, r) ==
    IF l > r THEN -1
    ELSE IF l < r THEN 1
    ELSE 0

\* the last test of every comparator: IDX
CmpIdxPositive(l, r) ==
    IF l.idx > 0 /\ l.idx < r.idx THEN -1
    ELSE IF l.idx > r.idx /\ r.idx > 0 THEN 1
    ELSE 0
CmpIdx(l, r) == CmpId(l.idx, r.idx)

_cmp_cpu_index_usable_first(l, r) == OrNext(CmpSt(l, r), CmpIdx(l, r))
_cmp_cpu_index(l, r) == CmpIdx(l, r)

_cmp_cpu_locality(l, r) ==
    OrNext(CmpSt(l, r),
    OrNext(CmpId(l.pk_id, r.pk_id),
    OrNext(CmpId(l.no_id, r.no_id),
    OrNext(CmpId(l.ca_id[4], r.ca_id[4]),
    OrNext(CmpId(l.ca_id[3], r.ca_id[3]),
    OrNext(CmpId(l.cl_gid, r.cl_gid),
    OrNext(CmpId(l.ca_id[2], r.ca_id[2]),
    OrNext(CmpId(l.ts_id, r.ts_id),
    OrNext(CmpId(l.ca_id[1], r.ca_id[1]),
    OrNext(CmpId(l.ca_id[0], r.ca_id[0]),
    CmpIdx(l, r)))))))))))

_cmp_cpu_cluster_capa(l, r) ==
    OrNext(CmpSt(l, r),
    OrNext(CmpId(l.pk_id, r.pk_id),
    OrNext(CmpId(l.no_id, r.no_id),
    OrNext(CmpId(l.ca_id[4], r.ca_id[4]),
    OrNext(CmpId(l.ca_id[3], r.ca_id[3]),
    OrNext(CmpId(l.cl_gid, r.cl_gid),
    OrNext(CmpCapa(l.capa, r.capa),
    OrNext(CmpId(l.ca_id[2], r.ca_id[2]),
    OrNext(CmpId(l.ts_id, r.ts_id),
    OrNext(CmpId(l.ca_id[1], r.ca_id[1]),
    OrNext(CmpId(l.ca_id[0], r.ca_id[0]),
    CmpIdx(l, r))))))))))))

_cmp_cpu_performance(l, r) ==
    OrNext(CmpSt(l, r),
    OrNext(CmpCapa(l.capa, r.capa),
    OrNext(CmpThCnt(l.th_cnt, r.th_cnt),
    OrNext(CmpId(l.th_id, r.th_id),
    OrNext(CmpId(l.ca_id[0], r.ca_id[0]),
    OrNext(CmpId(l.ca_id[1], r.ca_id[1]),
    OrNext(CmpId(l.ts_id, r.ts_id),
    OrNext(CmpId(l.ca_id[2], r.ca_id[2]),
    OrNext(CmpId(l.cl_gid, r.cl_gid),
    OrNext(CmpId(l.ca_id[3], r.ca_id[3]),
    OrNext(CmpId(l.ca_id[4], r.ca_id[4]),
    OrNext(CmpId(l.no_id, r.no_id),
    OrNext(CmpId(l.pk_id, r.pk_id),
    CmpIdx(l, r))))))))))))))

_cmp_cpu_low_latency(l, r) ==
    OrNext(CmpSt(l, r),
    OrNext(CmpId(l.pk_id, r.pk_id),
    OrNext(CmpId(l.no_id, r.no_id),
    OrNext(CmpId(l.ca_id[4], r.ca_id[4]),
    OrNext(CmpId(l.ca_id[3], r.ca_id[3]),
    OrNext(CmpCapa(l.capa, r.capa),
    OrNext(CmpThCnt(l.th_cnt, r.th_cnt),
    OrNext(CmpId(l.cl_gid, r.cl_gid),
    OrNext(CmpId(l.ca_id[2], r.ca_id[2]),
    OrNext(CmpId(l.ts_id, r.ts_id),
    OrNext(CmpId(l.ca_id[1], r.ca_id[1]),
    OrNext(CmpId(l.ca_id[0], r.ca_id[0]),
    CmpIdx(l, r)))))))))))))

_cmp_cpu_balanced(l, r) ==
    OrNext(CmpSt(l, r),
    OrNext(CmpCapa(l.capa, r.capa),
    OrNext(CmpThCnt(l.th_cnt, r.th_cnt),
    OrNext(CmpId(l.pk_id, r.pk_id),
    OrNext(CmpId(l.no_id, r.no_id),
    OrNext(CmpId(l.ca_id[4], r.ca_id[4]),
    OrNext(CmpId(l.ca_id[3], r.ca_id[3]),
    OrNext(CmpId(l.th_id, r.th_id),
    OrNext(CmpId(l.cl_gid, r.cl_gid),
    OrNext(CmpId(l.ca_id[2], r.ca_id[2]),
    OrNext(CmpId(l.ts_id, r.ts_id),
    OrNext(CmpId(l.ca_id[1], r.ca_id[1]),
    OrNext(CmpId(l.ca_id[0], r.ca_id[0]),
    CmpIdx(l, r))))))))))))))

\* capacity and SMT width are compared the other way round: lower first
_cmp_cpu_resource(l, r) ==
    OrNext(CmpSt(l, r),
    OrNext(-CmpCapa(l.capa, r.capa),
    OrNext(-CmpThCnt(l.th_cnt, r.th_cnt),
    OrNext(CmpId(l.pk_id, r.pk_id),
    OrNext(CmpId(l.no_id, r.no_id),
    OrNext(CmpId(l.ca_id[4], r.ca_id[4]),
    OrNext(CmpId(l.ca_id[3], r.ca_id[3]),
    OrNext(CmpId(l.cl_gid, r.cl_gid),
    OrNext(CmpId(l.ca_id[2], r.ca_id[2]),
    OrNext(CmpId(l.ts_id, r.ts_id),
    OrNext(CmpId(l.ca_id[1], r.ca_id[1]),
    OrNext(CmpId(l.ca_id[0], r.ca_id[0]),
    CmpIdx(l, r)))))))))))))

_cmp_cpu_cluster(l, r) ==
    OrNext(CmpSt(l, r),
    OrNext(CmpId(l.cl_gid, r.cl_gid),
    OrNext(CmpId(l.pk_id, r.pk_id),
    OrNext(CmpId(l.no_id, r.no_id),
    OrNext(CmpId(l.ca_id[3], r.ca_id[3]),
    OrNext(CmpId(l.ca_id[2], r.ca_id[2]),
    CmpIdx(l, r)))))))

\* ha_cpu_selection[]: the strategies of "cpu-selection", by table index
ha_cpu_selection ==
    << "balanced", "performance", "low-latency", "locality", "resource", "all" >>

\* the comparators used by the fixup only
InternalCmps == { "cluster", "cluster_capa" }

Strategies == { ha_cpu_selection[i] : i \in DOMAIN ha_cpu_selection }
Comparators == Strategies \cup InternalCmps

\* the call through a comparator's function pointer
CmpCpu(name, l, r) ==
    CASE name = "balanced"     -> _cmp_cpu_balanced(l, r)
      [] name = "performance"  -> _cmp_cpu_performance(l, r)
      [] name = "low-latency"  -> _cmp_cpu_low_latency(l, r)
      [] name = "locality"     -> _cmp_cpu_locality(l, r)
      [] name = "resource"     -> _cmp_cpu_resource(l, r)
      [] name = "all"          -> _cmp_cpu_index(l, r)
      [] name = "cluster"      -> _cmp_cpu_cluster(l, r)
      [] name = "cluster_capa" -> _cmp_cpu_cluster_capa(l, r)

----------------------------------------------------------------------------
(* Comparator inputs.  The comparators are pure functions of two           *)
(* descriptors.  They are exercised on three descriptors of distinct idx   *)
(* that differ from the freshly allocated descriptor either in one field,  *)
(* which takes any value in each of the three, or in two fields, which     *)
(* take any value in each of the first two.                                *)

IdKeys == { "pk_id", "no_id", "ca_id0", "ca_id1", "ca_id2", "ca_id3", "ca_id4",
            "cl_gid", "ts_id", "th_id" }
CmpKeys == IdKeys \cup { "st", "th_cnt", "capa" }

\* the keys each comparator tests, in the order of its tests
KeyOrder(name) ==
    CASE name = "balanced" ->
           << "st", "capa", "th_cnt", "pk_id", "no_id", "ca_id4", "ca_id3", "th_id",
              "cl_gid", "ca_id2", "ts_id", "ca_id1", "ca_id0", "idx" >>
      [] name = "performance" ->
           << "st", "capa", "th_cnt", "th_id", "ca_id0", "ca_id1", "ts_id", "ca_id2",
              "cl_gid", "ca_id3", "ca_id4", "no_id", "pk_id", "idx" >>
      [] name = "low-latency" ->
           << "st", "pk_id", "no_id", "ca_id4", "ca_id3", "capa", "th_cnt", "cl_gid",
              "ca_id2", "ts_id", "ca_id1", "ca_id0", "idx" >>
      [] name = "locality" ->
           << "st", "pk_id", "no_id", "ca_id4", "ca_id3", "cl_gid", "ca_id2", "ts_id",
              "ca_id1", "ca_id0", "idx" >>
      [] name = "resource" ->
           << "st", "capa", "th_cnt", "pk_id", "no_id", "ca_id4", "ca_id3", "cl_gid",
              "ca_id2", "ts_id", "ca_id1", "ca_id0", "idx" >>
      [] name = "all" -> << "idx" >>
      [] name = "cluster" ->
           << "st", "cl_gid", "pk_id", "no_id", "ca_id3", "ca_id2", "idx" >>
      [] name = "cluster_capa" ->
           << "st", "pk_id", "no_id", "ca_id4", "ca_id3", "cl_gid", "capa", "ca_id2",
              "ts_id", "ca_id1", "ca_id0", "idx" >>

\* capacities as sysfs reports them; 100/104 and 104/109 are within 5%, 100/109 are not
CapaVals == { -1, 100, 104, 109 }

KeyVals(k) ==
    CASE k = "st"     -> 0 .. 3
      [] k = "th_cnt" -> { -1, 1, 2 }
      [] k = "capa"   -> CapaVals
      [] OTHER        -> -1 .. MaxId

GetKey(d, k) ==
    CASE k = "ca_id0" -> d.ca_id[0]
      [] k = "ca_id1" -> d.ca_id[1]
      [] k = "ca_id2" -> d.ca_id[2]
      [] k = "ca_id3" -> d.ca_id[3]
      [] k = "ca_id4" -> d.ca_id[4]
      [] OTHER        -> d[k]

SetKey(d, k, v) ==
    CASE k = "ca_id0" -> [d EXCEPT !.ca_id[0] = v]
      [] k = "ca_id1" -> [d EXCEPT !.ca_id[1] = v]
      [] k = "ca_id2" -> [d EXCEPT !.ca_id[2] = v]
      [] k = "ca_id3" -> [d EXCEPT !.ca_id[3] = v]
      [] k = "ca_id4" -> [d EXCEPT !.ca_id[4] = v]
      [] OTHER        -> [d EXCEPT ![k] = v]

CmpSlots == 0 .. 2
CmpPairs == CmpSlots \X CmpSlots

\* the allocated descriptors with column <c1> in field <k1> and <c2> in field <k2>
CmpInput(k1, c1, k2, c2) ==
    [ i \in CmpSlots |->
        LET d0 == AllocDesc(i)
            d1 == IF i \in DOMAIN c1 THEN SetKey(d0, k1, c1[i]) ELSE d0
        IN  IF i \in DOMAIN c2 THEN SetKey(d1, k2, c2[i]) ELSE d1 ]

\* the state the pipeline's variables have after cpu_topo_alloc()
AllocStore == [cpu \in Cpus |-> AllocDesc(cpu)]
AllocCfg ==
    [ flags |-> 0,
      only_cpus |-> Cpus,     drop_cpus |-> {},
      only_nodes |-> Cpus,    drop_nodes |-> {},
      only_clusters |-> Cpus, drop_clusters |-> {},
      only_cores |-> Cpus,    drop_cores |-> {},
      only_threads |-> Cpus,  drop_threads |-> {} ]

NoRet == [name \in {} |-> 0]

\* a system without /sys/devices/system
NoSysfs == [cpu_dir |-> FALSE, cpu |-> <<>>, node |-> <<>>]

InitCmp ==
    /\ ha_cpu_topo = AllocStore
    /\ cpu_set_cfg = AllocCfg
    /\ cpu_sel = 0
    /\ sys_bound = [ok |-> FALSE, set |-> {}]
    /\ sys_online = [ok |-> FALSE, set |-> {}]
    /\ sysfs = NoSysfs
    /\ saved_topo = AllocStore
    /\ pc = "cmp"
    /\ \/ \E k1 \in CmpKeys : \E c1 \in [CmpSlots -> KeyVals(k1)] :
            cmp_args = CmpInput(k1, c1, k1, <<>>)
       \/ \E k1 \in CmpKeys : \E k2 \in CmpKeys \ {k1} :
            \E c1 \in [0 .. 1 -> KeyVals(k1)] : \E c2 \in [0 .. 1 -> KeyVals(k2)] :
               cmp_args = CmpInput(k1, c1, k2, c2)
    /\ cmp_ret = NoRet

\* every comparator is called on every ordered pair of the descriptors
Compare ==
    /\ pc = "cmp"
    /\ cmp_ret' = [name \in Comparators |->
                     [p \in CmpPairs |->
                        CmpCpu(name, cmp_args[p[1]], cmp_args[p[2]])]]
    /\ pc' = "compared"
    /\ UNCHANGED <<ha_cpu_topo, cpu_set_cfg, cpu_sel, env, saved_topo, cmp_args>>

NextCmp == Compare

SpecCmp == InitCmp /\ [][NextCmp]_vars

\* The comparators on descriptors as discovery and fixup leave them on a
\* machine that reports everything: every field is known, and the
\* descriptors differ from one another in two of them.
KnownDesc(i) ==
    [ AllocDesc(i) EXCEPT !.ca_id = [lvl \in Levels |-> 0],
                          !.ts_id = 0, !.cl_gid = 0, !.cl_lid = 0, !.no_id = 0,
                          !.pk_id = 0, !.tg_id = 0, !.th_cnt = 1, !.th_id = 0,
                          !.capa = 100 ]

KnownVals(k) == KeyVals(k) \ { -1 }

KnownInput(k1, c1, k2, c2) ==
    [ i \in CmpSlots |->
        IF i \in DOMAIN c1
        THEN SetKey(SetKey(KnownDesc(i), k1, c1[i]), k2, c2[i])
        ELSE KnownDesc(i) ]

InitKeys ==
    /\ ha_cpu_topo = AllocStore
    /\ cpu_set_cfg = AllocCfg
    /\ cpu_sel = 0
    /\ sys_bound = [ok |-> FALSE, set |-> {}]
    /\ sys_online = [ok |-> FALSE, set |-> {}]
    /\ sysfs = NoSysfs
    /\ saved_topo = AllocStore
    /\ pc = "cmp"
    /\ \E k1 \in CmpKeys \ { "st" } : \E k2 \in CmpKeys \ { "st", k1 } :
          \E c1 \in [0 .. 1 -> KnownVals(k1)] : \E c2 \in [0 .. 1 -> KnownVals(k2)] :
             cmp_args = KnownInput(k1, c1, k2, c2)
    /\ cmp_ret = NoRet

SpecKeys == InitKeys /\ [][NextCmp]_vars

----------------------------------------------------------------------------
(* qsort().  With a comparator that orders the elements totally the result *)
(* is the sorted array.  The comparators above are not always transitive,  *)
(* and C leaves the result of qsort() undefined then: which arrangement    *)
(* comes out depends on the algorithm of the C library.  Every arrangement *)
(* is a possible result in which an element x comes before an element y    *)
(* only if a chain of comparisons leads from x to y (x <= ... <= y): the   *)
(* elements of a cycle of the comparator come out in any order, the others *)
(* come out sorted.  The descriptors move as whole structs.                *)

Perms ==
    { q : q \in { p \in [Cpus -> Cpus] : \A i, j \in Cpus : i # j => p[i] # p[j] } }

\* the pairs of slots
CpuPairs == { <<a, b>> : a \in Cpus, b \in Cpus }

\* R with the pairs (x, z) that two pairs (x, y) and (y, z) of R link
Linked(R) ==
    { p \in CpuPairs :
        \/ p \in R
        \/ \E y \in Cpus : <<p[1], y>> \in R /\ <<y, p[2]>> \in R }

\* the pairs (x, z) that a chain of pairs of R links
RECURSIVE Chains(_, _)
Chains(R, R2) == IF R2 = R THEN R ELSE Chains(R2, Linked(R2))

\* the arrangements of the elements that agree with the chains <before>:
\* the chains being transitive, it is enough that neighbours agree with them
Arranged(topo, before) ==
    { [slot \in Cpus |-> topo[q[slot]]] :
        q \in { q \in Perms :
                  \A i \in 1 .. (MaxCpus - 1) : <<q[i - 1], q[i]>> \in before } }

\* the pairs of slots whose elements the comparator orders or leaves tied
Ordered(topo, name) ==
    { p \in CpuPairs : CmpCpu(name, topo[p[1]], topo[p[2]]) <= 0 }

qsort(topo, name) == Arranged(topo, Chains({}, Ordered(topo, name)))

cpu_reorder_by_index_skipped(topo) == { topo }
cpu_reorder_by_index(topo) == qsort(topo, "all")

cpu_reorder_by_locality(topo) == qsort(topo, "locality")

cpu_reorder_by_cluster_capa(topo) == qsort(topo, "cluster_capa")

cpu_optimize_topology(topo) == qsort(topo, ha_cpu_selection[cpu_sel + 1])

----------------------------------------------------------------------------
(* The OS probes and the usability pass                                    *)

\* ha_cpuset_detect_bound(): the set is zeroed, then filled by the affinity
\* call; 0 is returned when the call fails, the count of the set otherwise.
ha_cpuset_detect_bound ==
    IF sys_bound.ok
    THEN [ret |-> Cardinality(sys_bound.set), set |-> sys_bound.set]
    ELSE [ret |-> 0, set |-> {}]

\* ha_cpuset_detect_online(): the set is zeroed, then filled from the list
\* of online CPUs when it can be read and parsed; the count is returned.
ha_cpuset_detect_online ==
    LET set == IF sys_online.ok THEN sys_online.set ELSE {}
    IN  [ret |-> Cardinality(set), set |-> set]

ExcludeAssigns(d) == [d EXCEPT !.st = HA_CPU_F_EXCLUDED]
Exclude(d) == [d EXCEPT !.st = SetFlag(d.st, HA_CPU_F_EXCLUDED)]
Offline(d) == [d EXCEPT !.st = SetFlag(d.st, HA_CPU_F_OFFLINE)]

\* unless "reset" was given, the CPUs absent from the boot set are excluded
UsableBoundIgnoresReset(topo) ==
    LET boot_set == ha_cpuset_detect_bound.set
    IN  [cpu \in Cpus |-> IF cpu \notin boot_set THEN Exclude(topo[cpu]) ELSE topo[cpu]]
UsableBound(topo) ==
    IF ~HasFlag(cpu_set_cfg.flags, CPU_SET_FL_DO_RESET)
    THEN LET boot_set == ha_cpuset_detect_bound.set
         IN  [cpu \in Cpus |->
                IF cpu \notin boot_set THEN Exclude(topo[cpu]) ELSE topo[cpu]]
    ELSE topo

\* remove CPUs in the drop-cpu set or not in the only-cpu set
UsableCfg(topo) ==
    [cpu \in Cpus |->
        IF cpu \in cpu_set_cfg.drop_cpus \/ cpu \notin cpu_set_cfg.only_cpus
        THEN Exclude(topo[cpu]) ELSE topo[cpu]]

\* the CPUs absent from the online set are offline, when the probe found any
UsableOnlineUnchecked(topo) ==
    LET online == ha_cpuset_detect_online
    IN  [cpu \in Cpus |-> IF cpu \notin online.set THEN Offline(topo[cpu]) ELSE topo[cpu]]
UsableOnline(topo) ==
    LET online == ha_cpuset_detect_online
    IN  IF online.ret # 0
        THEN [cpu \in Cpus |->
                IF cpu \notin online.set THEN Offline(topo[cpu]) ELSE topo[cpu]]
        ELSE topo

cpu_detect_usable(topo) == UsableOnline(UsableCfg(UsableBound(topo)))

\* the value cpu_detect_usable() returns: "return 0" is its only return
cpu_detect_usable_ret(topo) == 0

----------------------------------------------------------------------------
(* cpu_detect_topology(), Linux.  A file of sysfs is the empty set when it *)
(* is absent or cannot be read, and the set of its one content otherwise;  *)
(* a CPU list is held parsed, as the set of the CPUs it names.             *)

\* the last slot whose CPU is not known to be offline (0 when there is none)
LastCpu(topo) ==
    LET on == { cpu \in Cpus : ~HasFlag(topo[cpu].st, HA_CPU_F_OFFLINE) }
    IN  IF on = {} THEN 0 ELSE CHOOSE cpu \in on : \A c \in on : c <= cpu

NoFile == {}
File(v) == { v }
Content(f) == CHOOSE v \in f : TRUE

\* the conversion of an unsigned value to the signed 16-bit field it is stored in
ToShort(v) ==
    LET m == v % 65536
    IN  IF m >= 32768 THEN m - 65536 ELSE m

\* a file of the directory of <cpu>, and one of its topology/ directory
CpuFile(cpu, name) == sysfs.cpu[cpu][name]
TopoFile(cpu, name) == IF sysfs.cpu[cpu].topology THEN sysfs.cpu[cpu][name] ELSE NoFile

\* a one-time presence probe: kept once made
Probe(no_x, present) == IF no_x < 0 THEN (IF present THEN 0 ELSE 1) ELSE no_x

\* the scan of cache/index<idx-1> and the following ones of <cpu>; s holds the
\* store and the id counters
RECURSIVE ScanCache(_, _, _, _, _)
ScanCache(s, cpu, lastcpu, idx, next_level) ==
    IF idx > 10 \/ idx > Len(CpuFile(cpu, "index")) THEN s
    ELSE LET e == CpuFile(cpu, "index")[idx]
             level == IF e.level # NoFile THEN Content(e.level) ELSE next_level
             next == IF e.level # NoFile THEN level + 1 ELSE next_level
         IN  IF e.type = File("Instruction")
             THEN ScanCache(s, cpu, lastcpu, idx + 1, next_level)
             ELSE IF level < 0 \/ level > 4
             THEN ScanCache(s, cpu, lastcpu, idx + 1, next)
             ELSE IF s.topo[cpu].ca_id[level] >= 0
             THEN ScanCache(s, cpu, lastcpu, idx + 1, next)
             ELSE IF e.shared_cpu_list # NoFile
             THEN LET cpus_list == Content(e.shared_cpu_list)
                  IN  ScanCache(
                        [s EXCEPT
                           !.topo = [cpu2 \in Cpus |->
                                       IF cpu2 <= lastcpu /\ cpu2 \in cpus_list
                                       THEN [@[cpu2] EXCEPT !.ca_id[level] = s.cpu_id.ca_id[level]]
                                       ELSE @[cpu2]],
                           !.cpu_id.ca_id[level] = @ + 1],
                        cpu, lastcpu, idx + 1, next)
             ELSE ScanCache(s, cpu, lastcpu, idx + 1, next)

DetectCache(s, cpu, lastcpu) ==
    LET no_cache == Probe(s.no_cache, CpuFile(cpu, "cache"))
        s1 == [s EXCEPT !.no_cache = no_cache]
    IN  IF no_cache = 1 THEN s1 ELSE ScanCache(s1, cpu, lastcpu, 1, 1)

\* the thread siblings: core id, thread count and sibling index of each
DetectThreads(s, cpu, lastcpu) ==
    LET f == TopoFile(cpu, "thread_siblings_list")
    IN  IF (s.topo[cpu].ts_id < 0 \/ s.topo[cpu].cl_gid < 0) /\ f # NoFile
        THEN LET siblings_list == Content(f)
             IN  [s EXCEPT
                    !.topo = [cpu2 \in Cpus |->
                                IF cpu2 <= lastcpu /\ cpu2 \in siblings_list
                                THEN [@[cpu2] EXCEPT
                                        !.ts_id = s.cpu_id.ts_id,
                                        !.th_cnt = Cardinality(siblings_list),
                                        !.th_id = Cardinality({ c \in siblings_list : c < cpu2 })]
                                ELSE @[cpu2]],
                    !.cpu_id.ts_id = @ + 1,
                    !.siblings_list = siblings_list]
        ELSE [s EXCEPT !.siblings_list = {}]

\* the clusters of cores, from cluster_cpus_list or else core_siblings_list
DetectCluster(s, cpu, lastcpu) ==
    LET f1 == TopoFile(cpu, "cluster_cpus_list")
        f2 == TopoFile(cpu, "core_siblings_list")
        f == IF f1 # NoFile THEN f1 ELSE f2
        no_clust == Probe(s.no_clust, f1 # NoFile \/ f2 # NoFile)
        s1 == [s EXCEPT !.no_clust = no_clust]
    IN  IF /\ no_clust = 0
           /\ s.topo[cpu].cl_gid < 0
           /\ f # NoFile
           /\ Cardinality(Content(f)) > 1
           /\ Content(f) # s.siblings_list
        THEN [s1 EXCEPT
                !.topo = [cpu2 \in Cpus |->
                            IF cpu2 <= lastcpu /\ cpu2 \in Content(f)
                            THEN [@[cpu2] EXCEPT !.cl_lid = s.cpu_id.cl_lid,
                                                 !.cl_gid = s.cpu_id.cl_gid]
                            ELSE @[cpu2]],
                !.cpu_id.cl_lid = @ + 1,
                !.cpu_id.cl_gid = @ + 1]
        ELSE s1

DetectPkgListSameId(s, cpu, lastcpu) ==
    LET f1 == TopoFile(cpu, "package_cpus_list")
        f2 == TopoFile(cpu, "core_siblings_list")
        f == IF f1 # NoFile THEN f1 ELSE f2
        no_pkg == Probe(s.no_pkg, f1 # NoFile \/ f2 # NoFile)
        s1 == [s EXCEPT !.no_pkg = no_pkg]
    IN  IF no_pkg = 0 /\ s.topo[cpu].pk_id < 0 /\ f # NoFile
        THEN [s1 EXCEPT
                !.topo = [cpu2 \in Cpus |->
                            IF cpu2 <= lastcpu /\ cpu2 \in Content(f)
                            THEN [@[cpu2] EXCEPT !.pk_id = s.cpu_id.pk_id]
                            ELSE @[cpu2]]]
        ELSE s1

\* the package, from package_cpus_list or else core_siblings_list
DetectPkgList(s, cpu, lastcpu) ==
    LET f1 == TopoFile(cpu, "package_cpus_list")
        f2 == TopoFile(cpu, "core_siblings_list")
        f == IF f1 # NoFile THEN f1 ELSE f2
        no_pkg == Probe(s.no_pkg, f1 # NoFile \/ f2 # NoFile)
        s1 == [s EXCEPT !.no_pkg = no_pkg]
    IN  IF no_pkg = 0 /\ s.topo[cpu].pk_id < 0 /\ f # NoFile
        THEN [s1 EXCEPT
                !.topo = [cpu2 \in Cpus |->
                            IF cpu2 <= lastcpu /\ cpu2 \in Content(f)
                            THEN [@[cpu2] EXCEPT !.pk_id = s.cpu_id.pk_id]
                            ELSE @[cpu2]],
                !.cpu_id.pk_id = @ + 1]
        ELSE s1

\* the package, from physical_package_id when the lists gave none
DetectPkgId(s, cpu) ==
    LET f == TopoFile(cpu, "physical_package_id")
    IN  IF s.topo[cpu].pk_id < 0 /\ f # NoFile
        THEN [s EXCEPT !.topo[cpu].pk_id = ToShort(Content(f))]
        ELSE s

DetectTopo(s, cpu, lastcpu) ==
    LET no_topo == Probe(s.no_topo, sysfs.cpu[cpu].topology)
        s1 == [s EXCEPT !.no_topo = no_topo, !.siblings_list = {}]
    IN  IF no_topo = 1 THEN s1
        ELSE DetectPkgId(
               DetectPkgList(
                 DetectCluster(
                   DetectThreads(s1, cpu, lastcpu), cpu, lastcpu), cpu, lastcpu), cpu)

\* the capacity: cpu_capacity, else acpi_cppc/nominal_perf, else the maximum
\* frequency in MHz
DetectCapa(s, cpu) ==
    LET no_capa == Probe(s.no_capa, CpuFile(cpu, "cpu_capacity") # NoFile)
        no_cppc == Probe(s.no_cppc, CpuFile(cpu, "acpi_cppc"))
        no_freq == Probe(s.no_freq, CpuFile(cpu, "cpufreq"))
        f1 == CpuFile(cpu, "cpu_capacity")
        f2 == IF CpuFile(cpu, "acpi_cppc") THEN CpuFile(cpu, "nominal_perf") ELSE NoFile
        f3 == IF CpuFile(cpu, "cpufreq") THEN CpuFile(cpu, "scaling_max_freq") ELSE NoFile
        c0 == s.topo[cpu].capa
        c1 == IF no_capa = 0 /\ c0 < 0 /\ f1 # NoFile THEN ToShort(Content(f1)) ELSE c0
        c2 == IF no_cppc = 0 /\ c1 < 0 /\ f2 # NoFile THEN ToShort(Content(f2)) ELSE c1
        c3 == IF no_freq = 0 /\ c2 < 0 /\ f3 # NoFile
              THEN ToShort((Content(f3) + 999) \div 1000) ELSE c2
    IN  [s EXCEPT !.no_capa = no_capa, !.no_cppc = no_cppc, !.no_freq = no_freq,
                  !.topo[cpu].capa = c3]

\* the loop over the CPUs up to the last one that is not offline
RECURSIVE DetectCpus(_, _, _)
DetectCpus(s, cpu, lastcpu) ==
    IF cpu > lastcpu THEN s
    ELSE IF HasFlag(s.topo[cpu].st, HA_CPU_F_OFFLINE) \/ ~sysfs.cpu[cpu].dir
    THEN DetectCpus(s, cpu + 1, lastcpu)
    ELSE DetectCpus(DetectCapa(DetectTopo(DetectCache(s, cpu, lastcpu), cpu, lastcpu), cpu),
                    cpu + 1, lastcpu)

\* the NUMA nodes, in the order the directory lists them
RECURSIVE DetectNodes(_, _)
DetectNodes(topo, n) ==
    IF n > Len(sysfs.node) THEN topo
    ELSE LET de == sysfs.node[n]
         IN  IF de.id >= 0 /\ de.cpulist # NoFile
             THEN DetectNodes([cpu \in Cpus |->
                                 IF cpu \in Content(de.cpulist)
                                 THEN [topo[cpu] EXCEPT !.no_id = ToShort(de.id)]
                                 ELSE topo[cpu]], n + 1)
             ELSE DetectNodes(topo, n + 1)

\* the probe's counters and one-time presence flags when it starts
DetectStart(topo) ==
    [ topo |-> topo,
      cpu_id |-> [ ca_id |-> [lvl \in Levels |-> 0],
                   ts_id |-> 0, cl_lid |-> 0, cl_gid |-> 0, pk_id |-> 0 ],
      siblings_list |-> {},
      no_cache |-> -1, no_topo |-> -1, no_capa |-> -1, no_clust |-> -1,
      no_pkg |-> -1, no_cppc |-> -1, no_freq |-> -1 ]

cpu_detect_topology(topo) ==
    LET lastcpu == LastCpu(topo)
        cpus == IF sysfs.cpu_dir
                THEN DetectCpus(DetectStart(topo), 0, lastcpu).topo
                ELSE topo
    IN  DetectNodes(cpus, 1)

----------------------------------------------------------------------------
(* cpu_fixup_topology()                                                    *)

FixupCapaAlways(topo, lastcpu) ==
    [cpu \in Cpus |->
        IF cpu <= lastcpu
        THEN [topo[cpu] EXCEPT !.capa = IF topo[cpu].th_cnt > 1 THEN CAPA_SMT ELSE CAPA_NOSMT]
        ELSE topo[cpu]]

\* assign capacity if not filled, based on the number of threads on the core
FixupCapa(topo, lastcpu) ==
    [cpu \in Cpus |->
        IF cpu <= lastcpu /\ topo[cpu].capa < 0
        THEN [topo[cpu] EXCEPT !.capa = IF topo[cpu].th_cnt > 1 THEN CAPA_SMT ELSE CAPA_NOSMT]
        ELSE topo[cpu]]

SamePkgNode(a, b) == a.pk_id = b.pk_id /\ a.no_id = b.no_id

AssignL3FromCpu(topo, cpu, cpu2, lastcpu) ==
    [c \in Cpus |->
        IF /\ c >= cpu
           /\ c <= lastcpu
           /\ topo[c].ca_id[3] < 0
           /\ SamePkgNode(topo[c], topo[cpu])
           /\ topo[c].ca_id[4] = topo[cpu].ca_id[4]
        THEN [topo[c] EXCEPT !.ca_id[3] = 0]
        ELSE topo[c]]

\* the inner loop: L3 id 0 for the L3-less CPUs from slot cpu2 on that have
\* the package, node and L4 of slot cpu
AssignL3(topo, cpu, cpu2, lastcpu) ==
    [c \in Cpus |->
        IF /\ c >= cpu2
           /\ c <= lastcpu
           /\ topo[c].ca_id[3] < 0
           /\ SamePkgNode(topo[c], topo[cpu])
           /\ topo[c].ca_id[4] = topo[cpu].ca_id[4]
        THEN [topo[c] EXCEPT !.ca_id[3] = 0]
        ELSE topo[c]]

\* the loop that adds an L3 instance where L3 is not reported
RECURSIVE FixupL3(_, _, _, _, _, _)
FixupL3(topo, cpu, cpu2, lastcpu, curr_gid, prev_gid) ==
    IF cpu > lastcpu THEN topo
    ELSE IF topo[cpu].ca_id[3] >= 0
    THEN FixupL3(topo, cpu + 1, cpu2, lastcpu, curr_gid, prev_gid)
    ELSE IF \/ cpu = 0
            \/ ~SamePkgNode(topo[cpu], topo[cpu - 1])
            \/ topo[cpu].ca_id[4] # topo[cpu - 1].ca_id[4]
    THEN FixupL3(topo, cpu + 1, cpu, lastcpu, 0, -2)
    ELSE IF topo[cpu].ca_id[2] # prev_gid
    THEN IF curr_gid + 1 >= 2
         THEN FixupL3(AssignL3(topo, cpu, cpu2, lastcpu), cpu + 1, lastcpu + 1,
                      lastcpu, curr_gid + 1, prev_gid)
         ELSE FixupL3(topo, cpu + 1, cpu2, lastcpu, curr_gid + 1, prev_gid)
    ELSE FixupL3(topo, cpu + 1, cpu2, lastcpu, curr_gid, prev_gid)

\* the cache test shared by the two renumbering loops: L4 differs, or
\* without L4 the L3 differs, or without L3 the L2 differs
CacheDiffers(a, b) ==
    \/ a.ca_id[4] # b.ca_id[4]
    \/ /\ a.ca_id[4] < 0
       /\ \/ a.ca_id[3] # b.ca_id[3]
          \/ /\ a.ca_id[3] < 0
             /\ a.ca_id[2] # b.ca_id[2]

CapaDiffersIgnored(a, b) == FALSE

\* capacity varies by more than +/- 5% between two CPUs of known capacity
CapaDiffers(a, b) ==
    /\ a.capa > 0
    /\ b.capa > 0
    /\ \/ a.capa * 100 < b.capa * 95
       \/ a.capa * 95 > b.capa * 100

ClusterGidSamePkgNode(new_pn, new_cl, curr_gid) ==
    IF new_cl THEN curr_gid + 1 ELSE curr_gid

\* curr_gid of the cluster loop: one more on a new (pkg, node) and on a new
\* cluster
ClusterGid(new_pn, new_cl, curr_gid) ==
    IF new_pn \/ new_cl THEN curr_gid + 1 ELSE curr_gid

ClusterLidNoReset(new_pn, new_cl, curr_lid) ==
    IF new_pn \/ new_cl THEN curr_lid + 1 ELSE curr_lid

\* curr_lid of the cluster loop: 0 on a new (pkg, node), one more on a new
\* cluster of the same (pkg, node)
ClusterLid(new_pn, new_cl, curr_lid) ==
    IF new_pn THEN 0 ELSE IF new_cl THEN curr_lid + 1 ELSE curr_lid

\* the loop that renumbers the clusters
RECURSIVE FixupClusters(_, _, _, _, _, _)
FixupClusters(topo, cpu, lastcpu, curr_gid, curr_lid, prev_gid) ==
    IF cpu > lastcpu THEN topo
    ELSE LET new_pn == cpu = 0 \/ ~SamePkgNode(topo[cpu], topo[cpu - 1])
             new_cl == /\ ~new_pn
                       /\ \/ topo[cpu].cl_gid # prev_gid
                          \/ CacheDiffers(topo[cpu], topo[cpu - 1])
                          \/ CapaDiffers(topo[cpu], topo[cpu - 1])
             gid == ClusterGid(new_pn, new_cl, curr_gid)
             lid == ClusterLid(new_pn, new_cl, curr_lid)
         IN  FixupClusters([topo EXCEPT ![cpu].cl_gid = gid, ![cpu].cl_lid = lid],
                           cpu + 1, lastcpu, gid, lid, topo[cpu].cl_gid)

CoreLidNoReset(new_pn, new_ts, curr_lid) ==
    IF new_pn \/ new_ts THEN curr_lid + 1 ELSE curr_lid

\* curr_lid of the core loop: 0 on a new (pkg, node), one more on a new core
\* of the same (pkg, node)
CoreLid(new_pn, new_ts, curr_lid) ==
    IF new_pn THEN 0 ELSE IF new_ts THEN curr_lid + 1 ELSE curr_lid

\* the loop that makes the core numbers contiguous per (pkg, node)
RECURSIVE FixupCores(_, _, _, _, _)
FixupCores(topo, cpu, lastcpu, curr_lid, prev_lid) ==
    IF cpu > lastcpu THEN topo
    ELSE LET new_pn == cpu = 0 \/ ~SamePkgNode(topo[cpu], topo[cpu - 1])
             new_ts == /\ ~new_pn
                       /\ \/ topo[cpu].ts_id # prev_lid
                          \/ CacheDiffers(topo[cpu], topo[cpu - 1])
             lid == CoreLid(new_pn, new_ts, curr_lid)
         IN  FixupCores([topo EXCEPT ![cpu].ts_id = lid],
                        cpu + 1, lastcpu, lid, topo[cpu].ts_id)

\* the stores the first half of cpu_fixup_topology() may leave: capacity
\* default, sort by locality, L3 loop, sort by cluster and capacity
FixupSorted(topo, lastcpu) ==
    UNION { cpu_reorder_by_cluster_capa(t) :
              t \in { FixupL3(t1, 0, 0, lastcpu, -1, -2) :
                        t1 \in cpu_reorder_by_locality(FixupCapa(topo, lastcpu)) } }

\* the stores the second half may leave of such a store: cluster loop, sort
\* by locality, core loop, sort by index
FixupRenumbered(topo, lastcpu) ==
    UNION { cpu_reorder_by_index(t) :
              t \in { FixupCores(t3, 0, lastcpu, -1, -2) :
                        t3 \in cpu_reorder_by_locality(
                                  FixupClusters(topo, 0, lastcpu, -1, -1, -2)) } }

\* the stores cpu_fixup_topology() may leave: each step is applied to every
\* store the steps before it may have left
cpu_fixup_topology(topo) ==
    UNION { FixupRenumbered(t2, LastCpu(topo)) : t2 \in FixupSorted(topo, LastCpu(topo)) }

----------------------------------------------------------------------------
(* cpu_refine_cpusets()                                                    *)

\* membership of an id in a CPU set: an unknown id (-1) and an id beyond
\* the size of the set are in no set
ha_cpuset_isset(set, cpu) == cpu >= 0 /\ cpu < MaxCpus /\ cpu \in set

RefinedDropOnly(drop, only, id) == ha_cpuset_isset(drop, id)

\* the test of one dimension: in the drop set or not in the only set
Refined(drop, only, id) == ha_cpuset_isset(drop, id) \/ ~ha_cpuset_isset(only, id)

cpu_refine_cpusets(topo) ==
    [cpu \in Cpus |->
        IF \/ Refined(cpu_set_cfg.drop_nodes, cpu_set_cfg.only_nodes, topo[cpu].no_id)
           \/ Refined(cpu_set_cfg.drop_clusters, cpu_set_cfg.only_clusters, topo[cpu].cl_lid)
           \/ Refined(cpu_set_cfg.drop_cores, cpu_set_cfg.only_cores, topo[cpu].ts_id)
           \/ Refined(cpu_set_cfg.drop_threads, cpu_set_cfg.only_threads, topo[cpu].th_id)
        THEN Exclude(topo[cpu])
        ELSE topo[cpu]]

\* the four loops of cpu_refine_cpusets(), one per dimension
RefineDims == { "node", "cluster", "core", "thread" }

RefineDim(topo, dim) ==
    [cpu \in Cpus |->
        IF CASE dim = "node" ->
                  Refined(cpu_set_cfg.drop_nodes, cpu_set_cfg.only_nodes, topo[cpu].no_id)
             [] dim = "cluster" ->
                  Refined(cpu_set_cfg.drop_clusters, cpu_set_cfg.only_clusters, topo[cpu].cl_lid)
             [] dim = "core" ->
                  Refined(cpu_set_cfg.drop_cores, cpu_set_cfg.only_cores, topo[cpu].ts_id)
             [] dim = "thread" ->
                  Refined(cpu_set_cfg.drop_threads, cpu_set_cfg.only_threads, topo[cpu].th_id)
        THEN Exclude(topo[cpu])
        ELSE topo[cpu]]

\* the loops run one after the other in the order <order>
RECURSIVE RefineInOrder(_, _)
RefineInOrder(topo, order) ==
    IF order = <<>> THEN topo
    ELSE RefineInOrder(RefineDim(topo, Head(order)), Tail(order))

----------------------------------------------------------------------------
(* The boot sequence: configuration, then the usability pass               *)

\* CPU sets as "<low>[-<high>]" writes them
Ranges == { lo .. hi : lo, hi \in Cpus } \ { {} }

CfgKeywords == { "reset", "drop-cpu", "only-cpu", "drop-node", "only-node",
                 "drop-cluster", "only-cluster", "drop-core", "only-core",
                 "drop-thread", "only-thread" }

\* one word of a "cpu-set" directive, with its CPU set when it takes one
cfg_parse_cpu_set(cfg, kw, set) ==
    CASE kw = "reset"        -> [cfg EXCEPT !.flags = SetFlag(@, CPU_SET_FL_DO_RESET)]
      [] kw = "drop-cpu"     -> [cfg EXCEPT !.drop_cpus = @ \cup set]
      [] kw = "only-cpu"     -> [cfg EXCEPT !.only_cpus = @ \cap set]
      [] kw = "drop-node"    -> [cfg EXCEPT !.drop_nodes = @ \cup set]
      [] kw = "only-node"    -> [cfg EXCEPT !.only_nodes = @ \cap set]
      [] kw = "drop-cluster" -> [cfg EXCEPT !.drop_clusters = @ \cup set]
      [] kw = "only-cluster" -> [cfg EXCEPT !.only_clusters = @ \cap set]
      [] kw = "drop-core"    -> [cfg EXCEPT !.drop_cores = @ \cup set]
      [] kw = "only-core"    -> [cfg EXCEPT !.only_cores = @ \cap set]
      [] kw = "drop-thread"  -> [cfg EXCEPT !.drop_threads = @ \cup set]
      [] kw = "only-thread"  -> [cfg EXCEPT !.only_threads = @ \cap set]

CfgParseCpuSet(kw, set) ==
    /\ pc = "cfg"
    /\ cpu_set_cfg' = cfg_parse_cpu_set(cpu_set_cfg, kw, set)
    /\ UNCHANGED <<ha_cpu_topo, cpu_sel, env, saved_topo, pc, cmpv>>

CpuDetectUsable ==
    /\ pc = "cfg"
    /\ ha_cpu_topo' = cpu_detect_usable(ha_cpu_topo)
    /\ saved_topo' = ha_cpu_topo
    /\ pc' = "usable"
    /\ UNCHANGED <<cpu_set_cfg, cpu_sel, env, cmpv>>

\* what the two OS probes may find: a failure, or a range of CPUs; the
\* online list may also be read and name no CPU
BoundProbes == { [ok |-> FALSE, set |-> {}] } \cup { [ok |-> TRUE, set |-> r] : r \in Ranges }
OnlineProbes == BoundProbes \cup { [ok |-> TRUE, set |-> {}] }

InitUsable ==
    /\ ha_cpu_topo = AllocStore
    /\ cpu_set_cfg = AllocCfg
    /\ cpu_sel = 0
    /\ sys_bound \in BoundProbes
    /\ sys_online \in OnlineProbes
    /\ sysfs = NoSysfs
    /\ saved_topo = AllocStore
    /\ pc = "cfg"
    /\ cmp_args = <<>>
    /\ cmp_ret = NoRet

NextUsable ==
    \/ CfgParseCpuSet("reset", {})
    \/ \E kw \in { "drop-cpu", "only-cpu" } : \E set \in Ranges :
          CfgParseCpuSet(kw, set)
    \/ CpuDetectUsable

SpecUsable == InitUsable /\ [][NextUsable]_vars

----------------------------------------------------------------------------
(* The boot sequence after the usability pass: topology probe, fixup,      *)
(* refinement, then the sort by the configured strategy, which its         *)
(* consumer may undo with a sort by index                                  *)

CfgParseCpuSelection(i) ==
    /\ pc = "cfg"
    /\ cpu_sel' = i
    /\ UNCHANGED <<ha_cpu_topo, cpu_set_cfg, env, saved_topo, pc, cmpv>>

CpuDetectTopology ==
    /\ pc = "usable"
    /\ ha_cpu_topo' = cpu_detect_topology(ha_cpu_topo)
    /\ saved_topo' = ha_cpu_topo
    /\ pc' = "detected"
    /\ UNCHANGED <<cpu_set_cfg, cpu_sel, env, cmpv>>

CpuFixupTopology ==
    /\ pc = "detected"
    /\ ha_cpu_topo' \in cpu_fixup_topology(ha_cpu_topo)
    /\ saved_topo' = ha_cpu_topo
    /\ pc' = "fixed"
    /\ UNCHANGED <<cpu_set_cfg, cpu_sel, env, cmpv>>

CpuRefineCpusets ==
    /\ pc = "fixed"
    /\ ha_cpu_topo' = cpu_refine_cpusets(ha_cpu_topo)
    /\ saved_topo' = ha_cpu_topo
    /\ pc' = "refined"
    /\ UNCHANGED <<cpu_set_cfg, cpu_sel, env, cmpv>>

CpuOptimizeTopology ==
    /\ pc = "refined"
    /\ ha_cpu_topo' \in cpu_optimize_topology(ha_cpu_topo)
    /\ saved_topo' = ha_cpu_topo
    /\ pc' = "sorted"
    /\ UNCHANGED <<cpu_set_cfg, cpu_sel, env, cmpv>>

CpuReorderByIndex ==
    /\ pc = "sorted"
    /\ ha_cpu_topo' \in cpu_reorder_by_index(ha_cpu_topo)
    /\ pc' = "indexed"
    /\ UNCHANGED <<cpu_set_cfg, cpu_sel, env, saved_topo, cmpv>>

----------------------------------------------------------------------------
(* The machines the boot sequence is run on.  A machine is described by    *)
(* the value each CPU has for each facet of the topology, -1 where sysfs   *)
(* does not tell; its sysfs gives, for a facet a CPU knows, the list of    *)
(* the CPUs that have the same value.                                      *)

MachineKeys == (IdKeys \ { "th_id" }) \cup { "capa" }

\* the values a facet takes over the CPUs: one value for the first CPUs and
\* one for the others, or one for the first CPU, one for the last and one
\* for those between, or two values alternating
Cols(vals) ==
    { [c \in Cpus |-> IF c < s THEN a ELSE b] : s \in Cpus, a \in vals, b \in vals }
    \cup { [c \in Cpus |-> IF c = 0 THEN a ELSE IF c = MaxCpus - 1 THEN d ELSE b] :
              a \in vals, b \in vals, d \in vals }
    \cup { [c \in Cpus |-> IF c % 2 = 0 THEN a ELSE b] : a \in vals, b \in vals }

KeyCols(k) == IF k = "capa" THEN Cols(CapaVals) ELSE Cols({ -1, 0, 1 })

\* one package and one node for all the CPUs, one core for each, nothing
\* else known
BaseMachine ==
    [k \in MachineKeys |->
        [c \in Cpus |-> CASE k \in { "pk_id", "no_id" } -> 0
                           [] k = "ts_id" -> c
                           [] OTHER -> -1]]

SameAs(col, c) == { c2 \in Cpus : col[c2] = col[c] }
ListFile(col, c) == IF col[c] < 0 THEN NoFile ELSE File(SameAs(col, c))
NumFile(col, c) == IF col[c] < 0 THEN NoFile ELSE File(col[c])

CaKey(lvl) ==
    CASE lvl = 0 -> "ca_id0" [] lvl = 1 -> "ca_id1" [] lvl = 2 -> "ca_id2"
      [] lvl = 3 -> "ca_id3" [] lvl = 4 -> "ca_id4"

RECURSIVE Ascending(_)
Ascending(S) ==
    IF S = {} THEN <<>>
    ELSE LET m == CHOOSE x \in S : \A y \in S : x <= y
         IN  <<m>> \o Ascending(S \ { m })

SysfsOf(m) ==
    [ cpu_dir |-> TRUE,
      cpu |-> [c \in Cpus |->
        LET lvls == Ascending({ lvl \in Levels : m[CaKey(lvl)][c] >= 0 })
        IN  [ dir |-> TRUE,
              cache |-> TRUE,
              index |-> [n \in 1 .. Len(lvls) |->
                           [ type |-> File("Unified"),
                             level |-> File(lvls[n]),
                             shared_cpu_list |-> File(SameAs(m[CaKey(lvls[n])], c)) ]],
              topology |-> TRUE,
              thread_siblings_list |-> ListFile(m.ts_id, c),
              cluster_cpus_list |-> ListFile(m.cl_gid, c),
              core_siblings_list |-> NoFile,
              package_cpus_list |-> NoFile,
              physical_package_id |-> NumFile(m.pk_id, c),
              cpu_capacity |-> NoFile,
              acpi_cppc |-> TRUE,
              nominal_perf |-> NumFile(m.capa, c),
              cpufreq |-> FALSE,
              scaling_max_freq |-> NoFile ]],
      node |-> LET ids == Ascending({ m.no_id[c] : c \in Cpus } \ { -1 })
               IN  [n \in 1 .. Len(ids) |->
                      [ id |-> ids[n],
                        cpulist |-> File({ c \in Cpus : m.no_id[c] = ids[n] }) ]] ]

\* all the CPUs are bound and online, or all but the first or the last one
\* are bound, or all but the first or the last one are online
AllBut(cpu) == [ok |-> TRUE, set |-> Cpus \ { cpu }]
LowerHalf == [ok |-> TRUE, set |-> { cpu \in Cpus : 2 * cpu < MaxCpus }]
UpperHalf == [ok |-> TRUE, set |-> { cpu \in Cpus : 2 * cpu >= MaxCpus }]
\* package numbers as physical_package_id may give them: the value is up to
\* the platform, and some do not fit the 16 bits of the field
WidePkgCols ==
    { [c \in Cpus |-> IF c < s THEN a ELSE b] :
         s \in Cpus, a \in { 0, 32767 }, b \in { 32768, 65534 } }

BootProbes ==
    LET all == [ok |-> TRUE, set |-> Cpus]
    IN  { << all, all >> }
        \cup { << b, all >> : b \in { AllBut(0), AllBut(MaxCpus - 1) } }
        \cup { << all, o >> : o \in { AllBut(0), AllBut(MaxCpus - 1) } }

Init ==
    /\ ha_cpu_topo = AllocStore
    /\ cpu_set_cfg = AllocCfg
    /\ cpu_sel = 0
    /\ \E probes \in BootProbes : sys_bound = probes[1] /\ sys_online = probes[2]
    /\ \/ sysfs = NoSysfs
       \/ \E k \in MachineKeys : \E col \in KeyCols(k) :
             sysfs = SysfsOf([BaseMachine EXCEPT ![k] = col])
       \/ \E col \in WidePkgCols :
             sysfs = SysfsOf([BaseMachine EXCEPT !.pk_id = col])
    /\ saved_topo = AllocStore
    /\ pc = "cfg"
    /\ cmp_args = <<>>
    /\ cmp_ret = NoRet

Next ==
    \/ \E i \in 0 .. 5 : CfgParseCpuSelection(i)
    \/ CpuDetectUsable
    \/ CpuDetectTopology
    \/ CpuFixupTopology
    \/ CpuRefineCpusets
    \/ CpuOptimizeTopology
    \/ CpuReorderByIndex

Spec == Init /\ [][Next]_vars

----------------------------------------------------------------------------
(* The boot sequence up to the refinement pass, with the "cpu-set"         *)
(* directives that filter on the topology                                  *)

\* the most "cpu-set" directives a configuration holds
MaxDirectives == 1

\* the keywords that the refinement pass serves
RefineKeywords == CfgKeywords \ { "reset", "drop-cpu", "only-cpu" }

\* the fields of the configuration that directives have changed
Directives(cfg) == Cardinality({ k \in DOMAIN AllocCfg : cfg[k] # AllocCfg[k] })

\* the facets that the machines of this sequence vary
RefineKeys == { "no_id", "ts_id", "cl_gid" }

InitRefine ==
    /\ ha_cpu_topo = AllocStore
    /\ cpu_set_cfg = AllocCfg
    /\ cpu_sel = 0
    /\ \E probes \in BootProbes : sys_bound = probes[1] /\ sys_online = probes[2]
    /\ \/ sysfs = NoSysfs
       \/ \E k \in RefineKeys : \E col \in KeyCols(k) :
             sysfs = SysfsOf([BaseMachine EXCEPT ![k] = col])
    /\ saved_topo = AllocStore
    /\ pc = "cfg"
    /\ cmp_args = <<>>
    /\ cmp_ret = NoRet

NextRefine ==
    \/ \E kw \in RefineKeywords : \E set \in Ranges :
          /\ Directives(cpu_set_cfg) < MaxDirectives
          /\ CfgParseCpuSet(kw, set)
    \/ CpuDetectUsable
    \/ CpuDetectTopology
    \/ CpuFixupTopology
    \/ CpuRefineCpusets

SpecRefine == InitRefine /\ [][NextRefine]_vars

----------------------------------------------------------------------------
(* The boot sequence up to the topology probe on machines that report the  *)
(* package by package_cpus_list and vary two of the facets read from       *)
(* sharing lists                                                           *)

\* the machine m whose sysfs has package_cpus_list and no physical_package_id
ListSysfs(m) ==
    [ SysfsOf(m) EXCEPT
        !.cpu = [c \in Cpus |->
                   [ @[c] EXCEPT !.package_cpus_list = ListFile(m.pk_id, c),
                                 !.physical_package_id = NoFile ]] ]

ProbeKeys == { "ca_id2", "ca_id3", "ts_id", "cl_gid", "pk_id" }

\* a facet is not reported, or groups all the CPUs, or each CPU alone, or
\* the CPUs by halves, or every other CPU
ProbeCols ==
    { [c \in Cpus |-> -1], [c \in Cpus |-> 0], [c \in Cpus |-> c],
      [c \in Cpus |-> IF 2 * c < MaxCpus THEN 0 ELSE 1], [c \in Cpus |-> c % 2] }

ProbeOnline ==
    { [ok |-> FALSE, set |-> {}], [ok |-> TRUE, set |-> Cpus],
      AllBut(0), AllBut(MaxCpus - 1), LowerHalf }

InitProbe ==
    /\ ha_cpu_topo = AllocStore
    /\ cpu_set_cfg = AllocCfg
    /\ cpu_sel = 0
    /\ sys_bound \in { [ok |-> TRUE, set |-> Cpus], AllBut(0) }
    /\ sys_online \in ProbeOnline
    /\ \E k1 \in ProbeKeys : \E k2 \in ProbeKeys :
          \E col1 \in ProbeCols : \E col2 \in ProbeCols :
             sysfs = ListSysfs([BaseMachine EXCEPT ![k1] = col1, ![k2] = col2])
    /\ saved_topo = AllocStore
    /\ pc = "cfg"
    /\ cmp_args = <<>>
    /\ cmp_ret = NoRet

NextProbe ==
    \/ CpuDetectUsable
    \/ CpuDetectTopology

SpecProbe == InitProbe /\ [][NextProbe]_vars

----------------------------------------------------------------------------
(* The boot sequence up to the refinement with directives of every kind,   *)
(* cpu-level and topology-level, on a few machines                         *)

\* the CPU sets of the directives: the first CPU, or all the others
FilterSets == { { 0 }, Cpus \ { 0 } }

\* a facet has one value for the lower half of the CPUs and one for the
\* upper half, or two values alternating
FilterCols ==
    { [c \in Cpus |-> IF 2 * c < MaxCpus THEN 0 ELSE 1], [c \in Cpus |-> c % 2] }

FilterKeys == { "no_id", "ts_id", "ca_id3", "capa" }

\* the bound probe fails, or all the CPUs or all but the first are bound;
\* all the CPUs are online, or all but the last
FilterProbes ==
    { << b, [ok |-> TRUE, set |-> Cpus] >> :
         b \in { [ok |-> FALSE, set |-> {}], [ok |-> TRUE, set |-> Cpus], AllBut(0) } }
        \cup { << [ok |-> TRUE, set |-> Cpus], AllBut(MaxCpus - 1) >> }

InitFilter ==
    /\ ha_cpu_topo = AllocStore
    /\ cpu_set_cfg = AllocCfg
    /\ cpu_sel = 0
    /\ \E probes \in FilterProbes : sys_bound = probes[1] /\ sys_online = probes[2]
    /\ \/ sysfs = NoSysfs
       \/ \E k \in FilterKeys : \E col \in FilterCols :
             sysfs = SysfsOf([BaseMachine EXCEPT ![k] = col])
    /\ saved_topo = AllocStore
    /\ pc = "cfg"
    /\ cmp_args = <<>>
    /\ cmp_ret = NoRet

NextFilter ==
    \/ Directives(cpu_set_cfg) < MaxDirectives /\ CfgParseCpuSet("reset", {})
    \/ \E kw \in CfgKeywords \ { "reset" } : \E set \in FilterSets :
          Directives(cpu_set_cfg) < MaxDirectives /\ CfgParseCpuSet(kw, set)
    \/ CpuDetectUsable
    \/ CpuDetectTopology
    \/ CpuFixupTopology
    \/ CpuRefineCpusets

SpecFilter == InitFilter /\ [][NextFilter]_vars

----------------------------------------------------------------------------
(* The boot sequence up to the fixup pass, on machines that vary two       *)
(* facets together                                                         *)

\* the values of a facet over the CPUs: one for the first CPUs, one for the others
Runs(vals) ==
    { [c \in Cpus |-> IF c < s THEN a ELSE b] : s \in Cpus, a \in vals, b \in vals }

\* capacities of big and little cores, besides those within 5% of each other
FixupCapaVals == { -1, 50, 100, 104 }

FixupCols(k) == IF k = "capa" THEN Runs(FixupCapaVals) ELSE Runs({ -1, 0, 1 })

\* the pairs of facets varied together
FixupPairs ==
    { <<"no_id", "ca_id2">>, <<"ca_id3", "ca_id2">>, <<"ca_id3", "capa">>,
      <<"ca_id4", "ca_id3">> }

\* the bound CPUs and the online CPUs: all, all but the first or the last,
\* or one half of them
FixupBound == { [ok |-> TRUE, set |-> Cpus], AllBut(0), AllBut(MaxCpus - 1), UpperHalf }
FixupOnline == { [ok |-> TRUE, set |-> Cpus], AllBut(0), AllBut(MaxCpus - 1), LowerHalf }

InitFixupOn(pairs) ==
    /\ ha_cpu_topo = AllocStore
    /\ cpu_set_cfg = AllocCfg
    /\ cpu_sel = 0
    /\ sys_bound \in FixupBound
    /\ sys_online \in FixupOnline
    /\ \E ks \in pairs :
          \E col1 \in FixupCols(ks[1]) : \E col2 \in FixupCols(ks[2]) :
             sysfs = SysfsOf([BaseMachine EXCEPT ![ks[1]] = col1, ![ks[2]] = col2])
    /\ saved_topo = AllocStore
    /\ pc = "cfg"
    /\ cmp_args = <<>>
    /\ cmp_ret = NoRet

InitFixup == InitFixupOn(FixupPairs)

NextFixup ==
    \/ CpuDetectUsable
    \/ CpuDetectTopology
    \/ CpuFixupTopology

SpecFixup == InitFixup /\ [][NextFixup]_vars

\* the machines on which the core loop is checked: the thread sibling lists
\* are varied together with the L2 sharing or with the nodes
CorePairs == { <<"ts_id", "ca_id2">>, <<"ts_id", "no_id">> }

InitCores == InitFixupOn(CorePairs)

SpecCores == InitCores /\ [][NextFixup]_vars

----------------------------------------------------------------------------
(* Claims about the comparators, under SpecCmp *)

\* two descriptors tie on key <k>: same usability for "st", same value otherwise
KeyTie(l, r, k) ==
    IF k = "st" THEN Unusable(l) <=> Unusable(r) ELSE GetKey(l, k) = GetKey(r, k)

\* C1: in every comparator but the index one, for every identifier key, when
\* all the keys tested before it tie, a descriptor whose value for the key is
\* known (>= 0) is ordered before one whose value is unknown (-1).
C1_KnownBeforeUnknown ==
    pc = "compared" =>
        \A name \in Comparators \ {"all"} : \A n \in DOMAIN KeyOrder(name) :
            \A p \in CmpPairs :
                LET l == cmp_args[p[1]]
                    r == cmp_args[p[2]]
                    k == KeyOrder(name)[n]
                IN  ( /\ k \in IdKeys
                      /\ \A m \in 1 .. (n - 1) : KeyTie(l, r, KeyOrder(name)[m])
                      /\ GetKey(l, k) >= 0
                      /\ GetKey(r, k) = -1 )
                    => ( /\ cmp_ret[name][p] < 0
                         /\ cmp_ret[name][<<p[2], p[1]>>] > 0 )

\* C2: every comparator is transitive on descriptors of distinct idx.
C2_Transitive ==
    pc = "compared" =>
        \A name \in Comparators : \A i, j, k \in CmpSlots :
            (cmp_ret[name][<<i, j>>] < 0 /\ cmp_ret[name][<<j, k>>] < 0)
                => cmp_ret[name][<<i, k>>] < 0

\* two positive capacities differ by at most 5% (of the larger one)
Within5(a, b) == a > 0 /\ b > 0 /\ a * 20 >= b * 19 /\ b * 20 >= a * 19

\* C6: for two descriptors whose positive capacities differ by at most 5%,
\* every comparator returns what it returns when the two capacities are equal.
C6_CapacityTolerance ==
    pc = "compared" =>
        \A name \in Comparators : \A p \in CmpPairs :
            LET l == cmp_args[p[1]]
                r == cmp_args[p[2]]
            IN  Within5(l.capa, r.capa)
                    => cmp_ret[name][p] = CmpCpu(name, l, [r EXCEPT !.capa = l.capa])

\* two capacities 100 and 104 met, and another key decided against the idx order
C6_Witness ==
    /\ pc = "compared"
    /\ cmp_args[0].capa = 100
    /\ cmp_args[1].capa = 104
    /\ cmp_args[0].pk_id > cmp_args[1].pk_id
    /\ cmp_args[1].pk_id >= 0
    /\ cmp_ret["performance"][<<0, 1>>] = 1

\* C7: for two descriptors of distinct idx every comparator returns non-zero;
\* it returns 0 when a descriptor is compared with itself.
C7_NoTies ==
    pc = "compared" =>
        \A name \in Comparators : \A p \in CmpPairs :
            (cmp_args[p[1]].idx # cmp_args[p[2]].idx) <=> (cmp_ret[name][p] # 0)

\* two descriptors alike in every field but idx were compared
C7_Witness ==
    /\ pc = "compared"
    /\ [cmp_args[1] EXCEPT !.idx = 0] = cmp_args[0]
    /\ cmp_args[0].pk_id = 1
    /\ cmp_ret["balanced"][<<0, 1>>] = -1
    /\ cmp_ret["cluster"][<<1, 0>>] = 1

----------------------------------------------------------------------------
(* Claims about the usability pass, under SpecUsable *)

Excluded(cpu) == HasFlag(ha_cpu_topo[cpu].st, HA_CPU_F_EXCLUDED)
IsOffline(cpu) == HasFlag(ha_cpu_topo[cpu].st, HA_CPU_F_OFFLINE)

NoCpuRestriction == cpu_set_cfg.drop_cpus = {} /\ cpu_set_cfg.only_cpus = Cpus
DoReset == HasFlag(cpu_set_cfg.flags, CPU_SET_FL_DO_RESET)

\* C8: when the bound-CPU probe fails, the usability pass leaves no CPU
\* EXCLUDED on account of the process affinity: with no drop-cpu/only-cpu
\* restriction no CPU is EXCLUDED after the pass.
C8_BoundFailureExcludesNone ==
    (pc = "usable" /\ ~sys_bound.ok /\ NoCpuRestriction)
        => \A cpu \in Cpus : ~Excluded(cpu)

\* C9: after the usability pass, when the online probe failed or named no
\* CPU, no CPU is OFFLINE; when it named a non-empty set, the OFFLINE CPUs
\* are exactly the CPUs outside that set.
C9_OfflineFromOnlineProbe ==
    pc = "usable" =>
        IF sys_online.ok /\ sys_online.set # {}
        THEN \A cpu \in Cpus : IsOffline(cpu) <=> cpu \notin sys_online.set
        ELSE \A cpu \in Cpus : ~IsOffline(cpu)

C9_Witness ==
    /\ pc = "usable"
    /\ sys_online.ok
    /\ sys_online.set = {1}
    /\ IsOffline(0) /\ ~IsOffline(1) /\ IsOffline(2)

\* C10: with a boot affinity mask B and no drop-cpu/only-cpu restriction,
\* after the usability pass the EXCLUDED CPUs are exactly the CPUs outside B
\* when "reset" was not given, and no CPU is EXCLUDED when it was.
C10_ResetIgnoresAffinity ==
    (pc = "usable" /\ sys_bound.ok /\ NoCpuRestriction)
        => \A cpu \in Cpus : Excluded(cpu) <=> (~DoReset /\ cpu \notin sys_bound.set)

C10_Witness ==
    /\ pc = "usable"
    /\ sys_bound.ok
    /\ sys_bound.set = {0}
    /\ NoCpuRestriction
    /\ DoReset
    /\ \A cpu \in Cpus : ~Excluded(cpu)

----------------------------------------------------------------------------
(* Claims about the sorts of the store, under Spec *)

Strategy == ha_cpu_selection[cpu_sel + 1]
IndexOrdered(topo) == \A slot \in Cpus : topo[slot].idx = slot

\* C3: every comparator but the index-only one ("all") orders a descriptor
\* with neither EXCLUDED nor OFFLINE before any descriptor with one of them,
\* whatever their other fields; so once the store is sorted by a strategy
\* other than "all" no unusable CPU comes before a usable one.
C3_UnusableSortLast ==
    /\ \A name \in Comparators \ { "all" } : \A a, c \in Cpus :
          (Unusable(ha_cpu_topo[a]) /\ ~Unusable(ha_cpu_topo[c]))
             => /\ CmpCpu(name, ha_cpu_topo[c], ha_cpu_topo[a]) < 0
                /\ CmpCpu(name, ha_cpu_topo[a], ha_cpu_topo[c]) > 0
    /\ (pc = "sorted" /\ Strategy # "all")
          => \A i, j \in Cpus :
                (i < j /\ Unusable(ha_cpu_topo[i])) => Unusable(ha_cpu_topo[j])

C3_Witness ==
    /\ pc = "sorted"
    /\ Strategy = "performance"
    /\ Unusable(saved_topo[0])
    /\ ~Unusable(saved_topo[1])
    /\ ~Unusable(ha_cpu_topo[0])
    /\ ha_cpu_topo[MaxCpus - 1].idx = 0

\* C4: the store being ordered by index, a sort by the configured strategy
\* followed by cpu_reorder_by_index leaves in every slot the descriptor that
\* was there before the two sorts, with every field as it was.
C4_RoundTrip ==
    (pc = "indexed" /\ IndexOrdered(saved_topo)) => ha_cpu_topo = saved_topo

C4_Witness ==
    /\ pc = "indexed"
    /\ IndexOrdered(saved_topo)
    /\ saved_topo \notin cpu_optimize_topology(saved_topo)
    /\ ha_cpu_topo = saved_topo

\* C5: when cpu_fixup_topology returns, slot i of the store holds the
\* descriptor of index i: the indexes ascend strictly along the slots and
\* are a permutation of 0..N-1.
C5_FixupLeavesIndexOrder ==
    pc = "fixed" =>
        /\ \A slot \in Cpus : ha_cpu_topo[slot].idx = slot
        /\ \A i, j \in Cpus : i < j => ha_cpu_topo[i].idx < ha_cpu_topo[j].idx
        /\ { ha_cpu_topo[slot].idx : slot \in Cpus } = Cpus

C5_Witness ==
    /\ pc = "fixed"
    /\ Unusable(ha_cpu_topo[0])
    /\ ~Unusable(ha_cpu_topo[1])
    /\ ha_cpu_topo[1].cl_gid = 0
    /\ saved_topo[1].cl_gid = -1
    /\ IndexOrdered(ha_cpu_topo)

----------------------------------------------------------------------------
(* Claims about the refinement pass, under SpecRefine *)

\* C11: with only-node = {0} and no other restriction, the refinement pass
\* marks EXCLUDED exactly the CPUs whose node id is not 0, those of unknown
\* node id (-1) among them, and marks no CPU of node 0.
C11_OnlyNodeZero ==
    (pc = "refined" /\ cpu_set_cfg = [AllocCfg EXCEPT !.only_nodes = { 0 }])
        => \A cpu \in Cpus :
              Excluded(cpu) <=>
                 \/ HasFlag(saved_topo[cpu].st, HA_CPU_F_EXCLUDED)
                 \/ saved_topo[cpu].no_id # 0

----------------------------------------------------------------------------
(* Claims about the fixup pass, under SpecFixup *)

\* the CPUs of the store are all in package 0 and node 0, none is offline
\* and none has an L3 or an L4 id
OnePkgNoL3(topo) ==
    \A cpu \in Cpus :
        /\ ~HasFlag(topo[cpu].st, HA_CPU_F_OFFLINE)
        /\ topo[cpu].pk_id = 0
        /\ topo[cpu].no_id = 0
        /\ topo[cpu].ca_id[3] = -1
        /\ topo[cpu].ca_id[4] = -1

\* CPUs 0 and 1 share L2 0, the others share L2 1
TwoL2Groups(topo) == \A cpu \in Cpus : topo[cpu].ca_id[2] = IF cpu < 2 THEN 0 ELSE 1

\* C12: the CPUs being online in one (package 0, node 0) without L3 nor L4,
\* CPUs {0,1} sharing L2 0 and the others ({2,3}) sharing L2 1,
\* cpu_fixup_topology ends with L3 id 0 on all of them.
C12_L3Scenario ==
    (pc = "fixed" /\ OnePkgNoL3(saved_topo) /\ TwoL2Groups(saved_topo))
        => \A cpu \in Cpus : ha_cpu_topo[cpu].ca_id[3] = 0

C12_Witness ==
    /\ pc = "fixed"
    /\ OnePkgNoL3(saved_topo)
    /\ TwoL2Groups(saved_topo)
    /\ \A cpu \in Cpus : ~Unusable(saved_topo[cpu])
    /\ \A cpu \in Cpus : ha_cpu_topo[cpu].ca_id[3] = 0

\* the CPUs of the store are usable, in one package and node, share L3 id 0,
\* and have capacity 100 for CPUs 0 and 1 and 50 for the others
BigLittleScenario(topo) ==
    \A cpu \in Cpus :
        /\ ~Unusable(topo[cpu])
        /\ SamePkgNode(topo[cpu], topo[0])
        /\ topo[cpu].ca_id[3] = 0
        /\ topo[cpu].capa = IF cpu < 2 THEN 100 ELSE 50

\* slots i-1 and i of the store sorted by cluster and capacity hold CPUs of
\* one package, node and last-level cache whose capacities differ by more than 5%
SplitByCapa(topo, i) ==
    /\ SamePkgNode(topo[i], topo[i - 1])
    /\ ~CacheDiffers(topo[i], topo[i - 1])
    /\ CapaDiffers(topo[i], topo[i - 1])

----------------------------------------------------------------------------
(* Claims about the whole boot sequence, under Spec *)

\* the descriptor of the CPU of index <i>, in whatever slot it is
DescOf(topo, i) == topo[CHOOSE slot \in Cpus : topo[slot].idx = i]

\* C14: no operation of the boot sequence, the re-sorts included, clears
\* EXCLUDED or OFFLINE from the descriptor of an index that carries it, nor
\* moves the flag to the descriptor of another index: the topology probe,
\* the fixup and the sorts leave the flags of every index as they are.
C14_FlagsMonotonic ==
    [][\A i \in Cpus : \A f \in { HA_CPU_F_EXCLUDED, HA_CPU_F_OFFLINE } :
          /\ HasFlag(DescOf(ha_cpu_topo, i).st, f) => HasFlag(DescOf(ha_cpu_topo', i).st, f)
          /\ pc \in { "usable", "detected", "refined", "sorted" } =>
                DescOf(ha_cpu_topo', i).st = DescOf(ha_cpu_topo, i).st]_vars

\* a sort has moved a flagged descriptor to another slot
C14_Witness ==
    /\ pc = "sorted"
    /\ saved_topo[0].idx = 0
    /\ HasFlag(saved_topo[0].st, HA_CPU_F_EXCLUDED)
    /\ ha_cpu_topo[MaxCpus - 1].idx = 0
    /\ HasFlag(ha_cpu_topo[MaxCpus - 1].st, HA_CPU_F_EXCLUDED)
    /\ ~Unusable(ha_cpu_topo[0])

\* the identifier fields of a descriptor
IdFields(d) ==
    { d.ca_id[lvl] : lvl \in Levels }
        \cup { d.ts_id, d.cl_gid, d.cl_lid, d.no_id, d.pk_id, d.th_cnt, d.th_id, d.capa }

\* C15: in every state every identifier field of every descriptor is -1 or
\* >= 0; right after cpu_topo_alloc they are all -1, the flags are 0 and idx
\* is the slot number.
C15_IdsKnownOrUnknown ==
    /\ \A slot \in Cpus : \A v \in IdFields(ha_cpu_topo[slot]) : v >= -1
    /\ pc = "cfg" =>
          \A slot \in Cpus :
             /\ IdFields(ha_cpu_topo[slot]) = { -1 }
             /\ ha_cpu_topo[slot].st = 0
             /\ ha_cpu_topo[slot].idx = slot

\* C16: cpu_detect_usable returns non-zero when the detection succeeded,
\* zero only when it failed.
C16_UsableReturnsSuccess ==
    pc = "usable" =>
        ((sys_bound.ok /\ sys_online.ok /\ sys_online.set # {})
            <=> cpu_detect_usable_ret(saved_topo) # 0)

\* C17: the thread-group id of every descriptor is 0 in every state of the
\* boot sequence.
C17_ThreadGroupUnassigned ==
    \A slot \in Cpus : ha_cpu_topo[slot].tg_id = 0

\* C18: after cpu_fixup_topology every CPU whose capacity was unknown has
\* capacity 100 if its sibling count is > 1 and 50 otherwise, the offline
\* and excluded ones and those above the last online CPU included, and no
\* capacity is left unknown.
C18_CapacityDefault ==
    pc = "fixed" =>
        \A i \in Cpus :
            /\ DescOf(saved_topo, i).capa = -1 =>
                  DescOf(ha_cpu_topo, i).capa =
                     IF DescOf(saved_topo, i).th_cnt > 1 THEN CAPA_SMT ELSE CAPA_NOSMT
            /\ DescOf(ha_cpu_topo, i).capa # -1

\* the arrays the first sort of cpu_fixup_topology can produce
LocalitySorted(topo) == cpu_reorder_by_locality(FixupCapa(topo, LastCpu(topo)))

\* the arrays cpu_fixup_topology can end with once its first sort gave t1
FixupAfterLocality(t1, lastcpu) ==
    UNION { FixupRenumbered(t2, lastcpu) :
              t2 \in cpu_reorder_by_cluster_capa(FixupL3(t1, 0, 0, lastcpu, -1, -2)) }

\* slots i and j of the sorted array are in one contiguous run of CPUs that
\* have the same package, node and L4
SameRun(t, i, j) ==
    \A k \in Cpus :
        (k > i /\ k <= j) \/ (k > j /\ k <= i) =>
            SamePkgNode(t[k], t[k - 1]) /\ t[k].ca_id[4] = t[k - 1].ca_id[4]

\* slot k is scanned by the L3 loop and has no L3 id but a known L2 id
LacksL3(t, k, lastcpu) == k <= lastcpu /\ t[k].ca_id[3] < 0 /\ t[k].ca_id[2] >= 0

\* C19: when two L3-less CPUs of one (package, node, L4) run of the
\* locality-sorted array have different L2 ids, cpu_fixup_topology gives L3
\* id 0 to every L3-less CPU of that run, a run of two CPUs included.
C19_L3Sufficient ==
    pc = "fixed" =>
        \A t1 \in LocalitySorted(saved_topo) :
            ha_cpu_topo \in FixupAfterLocality(t1, LastCpu(saved_topo)) =>
                \A i, j \in Cpus :
                    ( /\ SameRun(t1, i, j)
                      /\ LacksL3(t1, i, LastCpu(saved_topo))
                      /\ LacksL3(t1, j, LastCpu(saved_topo))
                      /\ t1[i].ca_id[2] # t1[j].ca_id[2] )
                    => \A k \in Cpus :
                          (SameRun(t1, i, k) /\ LacksL3(t1, k, LastCpu(saved_topo)))
                              => DescOf(ha_cpu_topo, t1[k].idx).ca_id[3] = 0

\* C20: an L3-less CPU whose (package, node, L4) run holds no L3-less CPU
\* of another L2 id keeps L3 id -1 through cpu_fixup_topology, however many
\* CPUs the run holds.
C20_L3Necessary ==
    pc = "fixed" =>
        \A t1 \in LocalitySorted(saved_topo) :
            ha_cpu_topo \in FixupAfterLocality(t1, LastCpu(saved_topo)) =>
                \A k \in Cpus :
                    ( /\ LacksL3(t1, k, LastCpu(saved_topo))
                      /\ \A j \in Cpus :
                            (SameRun(t1, k, j) /\ j <= LastCpu(saved_topo)
                                /\ t1[j].ca_id[3] < 0)
                                => t1[j].ca_id[2] = t1[k].ca_id[2] )
                    => DescOf(ha_cpu_topo, t1[k].idx).ca_id[3] = -1

\* the cluster ids the fixup left to the CPU that the (cluster, capacity)
\* sort had put in slot s of t2
GidOf(t2, s) == DescOf(ha_cpu_topo, t2[s].idx).cl_gid
LidOf(t2, s) == DescOf(ha_cpu_topo, t2[s].idx).cl_lid

\* the slots of the usable CPUs
UsableSlots(topo) == { s \in Cpus : ~Unusable(topo[s]) }

\* C21: after cpu_fixup_topology the cluster-global ids of the usable CPUs
\* are exactly 0..K, they grow along the (cluster, capacity) order, and the
\* cluster-local id is 0 for the first cluster of each (package, node) run
\* and one more for each further cluster of the run.
C21_ClustersRenumbered ==
    pc = "fixed" =>
        \A t2 \in FixupSorted(saved_topo, LastCpu(saved_topo)) :
            ha_cpu_topo \in FixupRenumbered(t2, LastCpu(saved_topo)) =>
                /\ \E K \in -1 .. MaxCpus :
                      { GidOf(t2, s) : s \in UsableSlots(t2) } = 0 .. K
                /\ \A s \in UsableSlots(t2) :
                      IF s = 0
                      THEN GidOf(t2, s) = 0 /\ LidOf(t2, s) = 0
                      ELSE /\ GidOf(t2, s) - GidOf(t2, s - 1) \in { 0, 1 }
                           /\ LidOf(t2, s) =
                                 IF ~SamePkgNode(t2[s], t2[s - 1]) THEN 0
                                 ELSE LidOf(t2, s - 1) + GidOf(t2, s) - GidOf(t2, s - 1)
                           /\ ~SamePkgNode(t2[s], t2[s - 1]) =>
                                 GidOf(t2, s) = GidOf(t2, s - 1) + 1

\* two (package, node) runs, the second one with two clusters, and ids that
\* are not the discovered ones
C21_Witness ==
    /\ pc = "fixed"
    /\ \A cpu \in Cpus : ~Unusable(ha_cpu_topo[cpu])
    /\ \E a, b, c \in Cpus :
          /\ ~SamePkgNode(ha_cpu_topo[a], ha_cpu_topo[b])
          /\ SamePkgNode(ha_cpu_topo[b], ha_cpu_topo[c])
          /\ ha_cpu_topo[a].cl_lid = 0 /\ ha_cpu_topo[a].cl_gid = 0
          /\ ha_cpu_topo[b].cl_lid = 0 /\ ha_cpu_topo[b].cl_gid = 1
          /\ ha_cpu_topo[c].cl_lid = 1 /\ ha_cpu_topo[c].cl_gid = 2

\* the arrays the second locality sort of cpu_fixup_topology can produce,
\* on which the core loop runs
FixupLocality(topo, lastcpu) ==
    UNION { cpu_reorder_by_locality(FixupClusters(t2, 0, lastcpu, -1, -1, -2)) :
              t2 \in FixupSorted(topo, lastcpu) }

\* the core id the fixup left to the CPU that the locality sort had put in
\* slot s of t3
CoreOf(t3, s) == DescOf(ha_cpu_topo, t3[s].idx).ts_id

\* C22: after cpu_fixup_topology the core ids of the usable CPUs of each
\* (package, node) pair are exactly 0..M, and along the locality order a new
\* core id is started exactly when the discovered core id or the cache
\* chain (L4, else L3, else L2) changes inside a (package, node) run.
C22_CoresRenumbered ==
    pc = "fixed" =>
        \A t3 \in FixupLocality(saved_topo, LastCpu(saved_topo)) :
            ha_cpu_topo \in cpu_reorder_by_index(
                               FixupCores(t3, 0, LastCpu(saved_topo), -1, -2)) =>
                /\ \A u \in UsableSlots(t3) : \E M \in Cpus :
                      { CoreOf(t3, s) : s \in { r \in UsableSlots(t3) : SamePkgNode(t3[r], t3[u]) } }
                          = 0 .. M
                /\ \A s \in UsableSlots(t3) :
                      CoreOf(t3, s) =
                         IF s = 0 \/ ~SamePkgNode(t3[s], t3[s - 1]) THEN 0
                         ELSE IF \/ t3[s].ts_id # t3[s - 1].ts_id
                                 \/ CacheDiffers(t3[s], t3[s - 1])
                              THEN CoreOf(t3, s - 1) + 1
                              ELSE CoreOf(t3, s - 1)

\* two threads of one core keep one id, and discovered core ids with a hole
\* were made contiguous
C22_Witness ==
    /\ pc = "fixed"
    /\ \A cpu \in Cpus : ~Unusable(ha_cpu_topo[cpu])
    /\ \E a, b, c \in Cpus :
          /\ a # b
          /\ saved_topo[a].ts_id = saved_topo[b].ts_id
          /\ saved_topo[a].ca_id[2] # saved_topo[c].ca_id[2]
          /\ saved_topo[c].ts_id > saved_topo[a].ts_id + 1
          /\ ha_cpu_topo[a].ts_id = 0 /\ ha_cpu_topo[b].ts_id = 0
          /\ ha_cpu_topo[c].ts_id = 1

\* the orders in which the four loops of the refinement can run
RefineOrders ==
    { o \in { <<a, b, c, d>> : a \in RefineDims, b \in RefineDims,
                                c \in RefineDims, d \in RefineDims } :
        { o[n] : n \in 1 .. 4 } = RefineDims }

\* C23: after the usability pass and the refinement pass a CPU is EXCLUDED
\* if and only if it is outside the set the bound probe filled and "reset"
\* was not given, or in drop-cpu, or not in only-cpu, or its node, local
\* cluster, core or sibling-index id is in the drop set or not in the only
\* set of its dimension; the four loops give the same store in every order,
\* and each pass run a second time changes nothing.
C23_ExclusionIsUnion ==
    /\ pc = "usable" => cpu_detect_usable(ha_cpu_topo) = ha_cpu_topo
    /\ pc = "refined" =>
          /\ \A cpu \in Cpus :
                Excluded(cpu) <=>
                   \/ ~DoReset /\ cpu \notin ha_cpuset_detect_bound.set
                   \/ cpu \in cpu_set_cfg.drop_cpus
                   \/ cpu \notin cpu_set_cfg.only_cpus
                   \/ ha_cpuset_isset(cpu_set_cfg.drop_nodes, saved_topo[cpu].no_id)
                   \/ ~ha_cpuset_isset(cpu_set_cfg.only_nodes, saved_topo[cpu].no_id)
                   \/ ha_cpuset_isset(cpu_set_cfg.drop_clusters, saved_topo[cpu].cl_lid)
                   \/ ~ha_cpuset_isset(cpu_set_cfg.only_clusters, saved_topo[cpu].cl_lid)
                   \/ ha_cpuset_isset(cpu_set_cfg.drop_cores, saved_topo[cpu].ts_id)
                   \/ ~ha_cpuset_isset(cpu_set_cfg.only_cores, saved_topo[cpu].ts_id)
                   \/ ha_cpuset_isset(cpu_set_cfg.drop_threads, saved_topo[cpu].th_id)
                   \/ ~ha_cpuset_isset(cpu_set_cfg.only_threads, saved_topo[cpu].th_id)
          /\ \A order \in RefineOrders : RefineInOrder(saved_topo, order) = ha_cpu_topo
          /\ cpu_refine_cpusets(ha_cpu_topo) = ha_cpu_topo

\* a CPU excluded by the usability pass alone, one by the refinement alone
\* and one that no test excludes
C23_Witness ==
    /\ pc = "refined"
    /\ \E a, b, c \in Cpus :
          /\ HasFlag(saved_topo[a].st, HA_CPU_F_EXCLUDED)
          /\ ~HasFlag(saved_topo[b].st, HA_CPU_F_EXCLUDED) /\ Excluded(b)
          /\ ~Excluded(c)

\* the key sequences of the strategies as they are documented, after the
\* usable-first test and before the index
DocKeys(name) ==
    CASE name = "locality" ->
           << "pk_id", "no_id", "ca_id4", "ca_id3", "cl_gid", "ca_id2", "ts_id",
              "ca_id1", "ca_id0" >>
      [] name = "performance" ->
           << "capa", "th_cnt", "th_id", "ca_id0", "ca_id1", "ts_id", "ca_id2",
              "cl_gid", "ca_id3", "ca_id4", "no_id", "pk_id" >>
      [] name = "low-latency" ->
           << "pk_id", "no_id", "ca_id4", "ca_id3", "capa", "th_cnt", "cl_gid",
              "ca_id2", "ts_id", "ca_id1", "ca_id0" >>
      [] name = "balanced" ->
           << "capa", "th_cnt", "pk_id", "no_id", "ca_id4", "ca_id3", "th_id",
              "cl_gid", "ca_id2", "ts_id", "ca_id1", "ca_id0" >>
      [] name = "resource" ->
           << "capa", "th_cnt", "pk_id", "no_id", "ca_id4", "ca_id3", "cl_gid",
              "ca_id2", "ts_id", "ca_id1", "ca_id0" >>
      [] name = "all" -> << >>

\* what one documented key says of two descriptors: 0 when they do not
\* differ on it, -1 when l comes first
DocKeyCmp(name, k, l, r) ==
    LET a == GetKey(l, k)
        b == GetKey(r, k)
        higher_first == k \in { "capa", "th_cnt" } /\ name # "resource"
    IN  IF a = b \/ (k = "capa" /\ Within5(a, b)) THEN 0
        ELSE IF (a > b) <=> higher_first THEN -1
        ELSE 1

\* the result of the first key of <keys> on which l and r differ, of the
\* index when they differ on none
RECURSIVE FirstKey(_, _, _, _)
FirstKey(name, keys, l, r) ==
    IF keys = << >> THEN DocKeyCmp(name, "idx", l, r)
    ELSE IF DocKeyCmp(name, Head(keys), l, r) # 0 THEN DocKeyCmp(name, Head(keys), l, r)
    ELSE FirstKey(name, Tail(keys), l, r)

AllKnown(d) == ~Unusable(d) /\ d.capa > 0 /\ \A v \in IdFields(d) : v >= 0

\* C24: for two usable descriptors whose fields are all known, each
\* strategy comparator returns what the first key of its documented
\* sequence on which the two differ says (capacity with the 5% tolerance),
\* and what the index says when they differ on none.
C24_KeyOrder ==
    pc = "compared" =>
        \A name \in Strategies : \A p \in CmpPairs :
            (AllKnown(cmp_args[p[1]]) /\ AllKnown(cmp_args[p[2]]))
                => cmp_ret[name][p] =
                      FirstKey(name, DocKeys(name), cmp_args[p[1]], cmp_args[p[2]])

\* capacities within 5% left the decision to the SMT width, which resource
\* reads the other way round
C24_Witness ==
    /\ pc = "compared"
    /\ AllKnown(cmp_args[0]) /\ AllKnown(cmp_args[1])
    /\ cmp_args[0].capa = 100 /\ cmp_args[1].capa = 104
    /\ cmp_args[0].th_cnt = 2 /\ cmp_args[1].th_cnt = 1
    /\ cmp_ret["balanced"][<<0, 1>>] = -1
    /\ cmp_ret["resource"][<<0, 1>>] = 1

\* the facets that cpu_detect_topology reads from sharing lists
ListFacets == { "ca_id0", "ca_id1", "ca_id2", "ca_id3", "ca_id4", "ts_id", "cl_gid", "pk_id" }

\* the sharing list of <cpu> for a facet: the shared_cpu_list of the first
\* cache index of the level, or the list of the topology directory
SharingList(cpu, k) ==
    CASE k = "ts_id"  -> TopoFile(cpu, "thread_siblings_list")
      [] k = "cl_gid" -> TopoFile(cpu, "cluster_cpus_list")
      [] k = "pk_id"  -> TopoFile(cpu, "package_cpus_list")
      [] OTHER ->
           LET idx == CpuFile(cpu, "index")
               ns == { n \in DOMAIN idx : k = CaKey(Content(idx[n].level)) }
           IN  IF ns = {} THEN NoFile
               ELSE idx[CHOOSE n \in ns : \A n2 \in ns : n <= n2].shared_cpu_list

OnlineCpus == { cpu \in Cpus : ~IsOffline(cpu) }

\* the sharing lists of the facet partition the online CPUs: each online
\* CPU has a list that holds it, and the CPUs of one list have the same list
Partitioned(k) ==
    \A cpu \in OnlineCpus :
        /\ SharingList(cpu, k) # NoFile
        /\ cpu \in Content(SharingList(cpu, k))
        /\ \A c2 \in Content(SharingList(cpu, k)) \cap OnlineCpus :
              SharingList(c2, k) = SharingList(cpu, k)

\* two distinct online CPUs have the same known id for the facet if and
\* only if they are in the same sharing list
GroupedByList(k) ==
    \A a, b \in OnlineCpus :
        a # b =>
            ( (GetKey(ha_cpu_topo[a], k) = GetKey(ha_cpu_topo[b], k)
                  /\ GetKey(ha_cpu_topo[a], k) >= 0)
                <=> b \in Content(SharingList(a, k)) )

\* a cluster list that cpu_detect_topology takes when it reads it for
\* <cpu>: more than one CPU, and not the thread siblings of the CPU
ClusterListTaken(cpu) ==
    /\ Cardinality(Content(SharingList(cpu, "cl_gid"))) > 1
    /\ SharingList(cpu, "cl_gid") # SharingList(cpu, "ts_id")

\* C25 as stated: for every facet read from sharing lists, clusters
\* included, when the lists partition the online CPUs, after
\* cpu_detect_topology two online CPUs have the same known id if and only if
\* they are in the same list.
C25_GroupedByList ==
    pc = "detected" => \A k \in ListFacets : Partitioned(k) => GroupedByList(k)

\* C25, amended: the same for the cache levels, the thread siblings and the
\* package, whose ids are all known then; for the clusters, two online CPUs
\* have the same known id if and only if they are in the same list and the
\* list has more than one CPU and is not the thread sibling list of one of
\* its online CPUs: the other cluster lists leave the cluster id unknown.
C25_GroupedByListButCoreClusters ==
    pc = "detected" =>
        \A k \in ListFacets :
            Partitioned(k) =>
                IF k = "cl_gid"
                THEN \A a, b \in OnlineCpus :
                        (ha_cpu_topo[a].cl_gid = ha_cpu_topo[b].cl_gid
                            /\ ha_cpu_topo[a].cl_gid >= 0)
                          <=> /\ b \in Content(SharingList(a, k))
                              /\ \E c \in Content(SharingList(a, k)) \cap OnlineCpus :
                                    ClusterListTaken(c)
                ELSE /\ GroupedByList(k)
                     /\ \A a \in OnlineCpus : GetKey(ha_cpu_topo[a], k) >= 0

\* two cores of two threads each were read, and two clusters that are not cores
C25_Witness ==
    /\ pc = "detected"
    /\ OnlineCpus = Cpus
    /\ Partitioned("ts_id") /\ Partitioned("cl_gid")
    /\ ha_cpu_topo[0].ts_id = ha_cpu_topo[1].ts_id
    /\ ha_cpu_topo[0].ts_id >= 0
    /\ ha_cpu_topo[MaxCpus - 1].ts_id > ha_cpu_topo[0].ts_id
    /\ ha_cpu_topo[0].cl_gid = 0
    /\ ha_cpu_topo[1].cl_gid = 1

\* C26: with the default configuration cpu_refine_cpusets marks no CPU
\* EXCLUDED, whatever topology discovery and fixup produced, the flat one
\* where node id and sibling index are -1 included.
C26_DefaultRefineExcludesNone ==
    (pc = "refined" /\ cpu_set_cfg = AllocCfg) =>
        \A cpu \in Cpus :
            Excluded(cpu) => HasFlag(DescOf(saved_topo, ha_cpu_topo[cpu].idx).st, HA_CPU_F_EXCLUDED)

\* the fields that cpu_fixup_topology never writes
FrameFields(d) ==
    << d.st, d.idx, d.pk_id, d.no_id, d.tg_id, d.th_cnt, d.th_id,
       d.ca_id[0], d.ca_id[1], d.ca_id[2], d.ca_id[4] >>

\* C27: cpu_fixup_topology leaves to the descriptor of every index its
\* flags, idx, package, node, thread group, sibling count, sibling index and
\* cache ids L0, L1, L2 and L4; it changes the capacity and the L3 id only
\* where they were unknown.
C27_FixupFrame ==
    [][pc = "detected" =>
          \A i \in Cpus :
             /\ FrameFields(DescOf(ha_cpu_topo', i)) = FrameFields(DescOf(ha_cpu_topo, i))
             /\ DescOf(ha_cpu_topo, i).capa # -1 =>
                   DescOf(ha_cpu_topo', i).capa = DescOf(ha_cpu_topo, i).capa
             /\ DescOf(ha_cpu_topo, i).ca_id[3] # -1 =>
                   DescOf(ha_cpu_topo', i).ca_id[3] = DescOf(ha_cpu_topo, i).ca_id[3]]_vars

\* the fixup moved descriptors through its sorts, filled an unknown
\* capacity and an unknown L3, and kept a known capacity and a known L3
C27_Witness ==
    /\ pc = "fixed"
    /\ \E a, b \in Cpus :
          /\ saved_topo[a].capa = -1 /\ ha_cpu_topo[a].capa > 0
          /\ saved_topo[a].ca_id[3] = -1 /\ ha_cpu_topo[a].ca_id[3] = 0
          /\ saved_topo[b].capa > 0 /\ saved_topo[b].ca_id[3] >= 0
          /\ ha_cpu_topo[b].capa = saved_topo[b].capa
          /\ ha_cpu_topo[b].ca_id[3] = saved_topo[b].ca_id[3]
          /\ Unusable(saved_topo[0]) /\ ~Unusable(saved_topo[a])

\* C28: after cpu_fixup_topology two usable CPUs that have the same
\* cluster-global id have the same package id and the same node id.
C28_ClusterInOnePkgNode ==
    pc = "fixed" =>
        \A a, b \in UsableSlots(ha_cpu_topo) :
            ha_cpu_topo[a].cl_gid = ha_cpu_topo[b].cl_gid
                => SamePkgNode(ha_cpu_topo[a], ha_cpu_topo[b])

\* CPUs of two nodes that share an L2 got two clusters, those of one node one
C28_Witness ==
    /\ pc = "fixed"
    /\ UsableSlots(ha_cpu_topo) = Cpus
    /\ \E a, b, c \in Cpus :
          /\ a # c
          /\ ha_cpu_topo[a].no_id = 0 /\ ha_cpu_topo[c].no_id = 0 /\ ha_cpu_topo[b].no_id = 1
          /\ ha_cpu_topo[a].ca_id[2] = 0 /\ ha_cpu_topo[b].ca_id[2] = 0
          /\ ha_cpu_topo[c].ca_id[2] = 0
          /\ ha_cpu_topo[a].cl_gid = ha_cpu_topo[c].cl_gid
          /\ ha_cpu_topo[a].cl_gid # ha_cpu_topo[b].cl_gid

\* C29: after cpu_fixup_topology two usable CPUs that have the same
\* package id, the same node id and the same cluster-local id have the same
\* cluster-global id, also when the package or node id is unknown for some
\* CPUs and known for others.
C29_LocalIdNamesOneCluster ==
    pc = "fixed" =>
        \A a, b \in UsableSlots(ha_cpu_topo) :
            ( /\ SamePkgNode(ha_cpu_topo[a], ha_cpu_topo[b])
              /\ ha_cpu_topo[a].cl_lid = ha_cpu_topo[b].cl_lid )
            => ha_cpu_topo[a].cl_gid = ha_cpu_topo[b].cl_gid

\* C30: after cpu_fixup_topology two usable CPUs of known L3 id that have
\* the same cluster-global id have the same L3 id, also when an L4 id is
\* known and shared by CPUs of different L3.
C30_ClusterInOneL3 ==
    pc = "fixed" =>
        \A a, b \in UsableSlots(ha_cpu_topo) :
            ( /\ ha_cpu_topo[a].cl_gid = ha_cpu_topo[b].cl_gid
              /\ ha_cpu_topo[a].ca_id[3] >= 0
              /\ ha_cpu_topo[b].ca_id[3] >= 0 )
            => ha_cpu_topo[a].ca_id[3] = ha_cpu_topo[b].ca_id[3]

====
